---- MODULE Spec2Model ----
(***************************************************************************)
(* BlotQuant: the densitometry and measurement-history engine of           *)
(* src/BlotQuant.py (class BlotQuant).                                     *)
(*                                                                         *)
(* State: the loaded image, the rotation angle, the display size, the      *)
(* measurement history, the exclusion registry, the results table, the     *)
(* summary label and the Welch check box.  The other widgets (type, group, *)
(* names, replicates, equal-N, start lane) are written by the user only    *)
(* and read by one handler, so their values are inputs of that handler.    *)
(* The canvas (class AnalysisCanvas) holds the region being drawn, its     *)
(* separators and the flags of the gesture in progress.  In the measuring  *)
(* sessions the gestures that draw a region are not followed one by one:   *)
(* the region and the separators on the canvas when QUANTIFY SELECTION is  *)
(* clicked are inputs of apply_selection.  The canvas session follows the  *)
(* mouse events and quantifies what they have drawn.                       *)
(*                                                                         *)
(* Numbers.  Pixels are 8-bit grey values.  A lane intensity is a sum of   *)
(* (pixel - median); the median of an even number of pixels is a half      *)
(* integer, so intensities are held DOUBLED (in units of 1/2), which keeps *)
(* them integral and leaves every ratio Target/Control unchanged.  A ratio *)
(* is an exact fraction in lowest terms.                                   *)
(*                                                                         *)
(* History variables.  lastOp names the handler that ran last and how it   *)
(* ended; origin tells, for each record of the history, whether it was     *)
(* appended alone ("single") or as the Control ("eqC") or Treatment        *)
(* ("eqT") half of an Equal N measurement.  No handler reads them.         *)
(*                                                                         *)
(* A handler runs to its end before the event loop hands out the next      *)
(* event, so the sessions take each handler as one step.  The step session *)
(* follows measure, undo and toggle statement by statement; frame is the   *)
(* handler under way there, with the records it has still to append and    *)
(* the number of times it has called refresh_analysis.                     *)
(***************************************************************************)
EXTENDS Integers, Sequences, FiniteSets, TLC

VARIABLES image, rotation_angle, display_width, display_height,
          ttest_check, group_history, analysis_history, excluded_samples,
          results_tree, summary_text, graphics_view, separators,
          current_roi_rect, last_roi_rect, frame, origin, lastOp

vars == <<image, rotation_angle, display_width, display_height,
          ttest_check, group_history, analysis_history, excluded_samples,
          results_tree, summary_text, graphics_view, separators,
          current_roi_rect, last_roi_rect, frame, origin, lastOp>>

\* The canvas and what the window holds of the region
canvas == <<graphics_view, separators, current_roi_rect, last_roi_rect>>

----------------------------------------------------------------------------
(* Arithmetic helpers *)

Min(a, b) == IF a <= b THEN a ELSE b

Max(a, b) == IF a >= b THEN a ELSE b

\* Python int(n / d) for d > 0: truncation toward zero.
Trunc(n, d) == IF n >= 0 THEN n \div d ELSE -((-n) \div d)

RECURSIVE GCD(_, _)
GCD(a, b) == IF b = 0 THEN a ELSE GCD(b, a % b)

Range(s) == {s[i] : i \in DOMAIN s}

\* The sum of a sequence, by halves.
RECURSIVE SumSeq(_)
SumSeq(s) ==
  IF Len(s) = 0 THEN 0
  ELSE IF Len(s) = 1 THEN s[1]
  ELSE SumSeq(SubSeq(s, 1, Len(s) \div 2))
         + SumSeq(SubSeq(s, (Len(s) \div 2) + 1, Len(s)))

Last(s) == s[Len(s)]

Front(s) == SubSeq(s, 1, Len(s) - 1)

\* sorted(list) on integers: insertion into an ascending sequence.
RECURSIVE Insert(_, _)
Insert(x, s) ==
  IF s = <<>> THEN <<x>>
  ELSE IF x <= Head(s) THEN <<x>> \o s
  ELSE <<Head(s)>> \o Insert(x, Tail(s))

RECURSIVE sorted(_)
sorted(s) == IF s = <<>> THEN <<>> ELSE Insert(Head(s), sorted(Tail(s)))

----------------------------------------------------------------------------
(* Images.  An image is a sequence of rows of grey values (B = G = R, so   *)
(* cvtColor leaves the value); None is the empty sequence.                 *)

NoImage == <<>>

\* A 4 x 3 blot: light background, one dark pixel at the foot of columns
\* 1, 2 and 4.
Blot == << <<255, 255, 255, 255>>,
           <<255, 255, 255, 255>>,
           <<253, 251, 255, 249>> >>

Height(m) == Len(m)

Width(m) == IF Len(m) = 0 THEN 0 ELSE Len(m[1])

\* The rotation angles the slider is moved to (range -45..45).
Angles == {0, 45}

\* cv2.warpAffine(image, matrix, (new_w, new_h), INTER_CUBIC, BORDER_REPLICATE)
\* for a 4 x 3 image turned by 45 degrees: new_w = int(3 sin + 4 cos) = 4 and
\* new_h = int(3 cos + 4 sin) = 4.  The interpolated pixel values are a fixed
\* function of image and angle; this array stands for them.
warpAffine(img, angle) ==
  << <<255, 255, 254, 255>>,
     <<255, 254, 255, 255>>,
     <<254, 255, 255, 252>>,
     <<255, 255, 252, 250>> >>

\* PIL rotate(expand=True) gives 6 x 5 for a 4 x 3 image at 45 degrees
\* (ceil(max) - floor(min) of the turned corners); QPixmap.scaled(800, 600,
\* KeepAspectRatio) of w x h is (600 w / h, 600) when that fits, else
\* (800, 800 h / w).
RotatedDisplaySource(img, angle) ==
  IF angle = 0 THEN <<Width(img), Height(img)>> ELSE <<6, 5>>

ScaledSize(w, h) ==
  LET rw == (600 * w) \div h
  IN IF rw <= 800 THEN <<rw, 600>> ELSE <<800, (800 * h) \div w>>

DisplaySize(img, angle) ==
  LET src == RotatedDisplaySource(img, angle) IN ScaledSize(src[1], src[2])

----------------------------------------------------------------------------
(* extract_roi_data: the region of the display mapped into the image.     *)
(* Region coordinates are not negative here, so the numpy slices do not   *)
(* wrap; the products stay far below the widths at which a double would   *)
(* round differently from the exact quotient.                             *)

NoRoi == [ok |-> FALSE, gray |-> <<>>, seps |-> <<>>]

\* a[lo : hi] on 0-based positions of a sequence of length n, 0 <= lo.
Slice(s, lo, hi) == SubSeq(s, Min(lo, Len(s)) + 1, Min(hi, Len(s)))

extract_roi_data(img, angle, dw, dh, roi, sep_positions) ==
  LET canvas_x == roi[1]
      canvas_y == roi[2]
      canvas_w == roi[3]
      canvas_h == roi[4]
  IN IF canvas_w <= 0 \/ canvas_h <= 0 \/ img = NoImage THEN NoRoi
     ELSE
       LET full == IF angle # 0 THEN warpAffine(img, angle) ELSE img
           \* scale_x = full.shape[1] / display_width, and so on
           x_adj == Trunc(canvas_x * Width(full), dw)
           y_adj == Trunc(canvas_y * Height(full), dh)
           w_adj == Trunc(canvas_w * Width(full), dw)
           h_adj == Trunc(canvas_h * Height(full), dh)
           rows == Slice(full, y_adj, y_adj + h_adj)
           roi_image == [r \in DOMAIN rows |-> Slice(rows[r], x_adj, x_adj + w_adj)]
           scaled_seps ==
             [k \in DOMAIN sep_positions |->
                Trunc((sep_positions[k] - canvas_x) * Width(full), dw)]
       IN IF Height(roi_image) = 0 \/ Width(roi_image) = 0 THEN NoRoi
          ELSE [ok |-> TRUE,
                \* cvtColor to grey, then bitwise_not on 8 bits
                gray |-> [r \in DOMAIN roi_image |->
                            [c \in DOMAIN roi_image[r] |-> 255 - roi_image[r][c]]],
                seps |-> scaled_seps]

----------------------------------------------------------------------------
(* process_roi, part 1: lane boundaries and lane intensities *)

\* boundaries of process_roi: the separators bracketed by 0 and the width,
\* or num_sections even sections.  int(i * (width / num_sections)) is the
\* exact quotient for the widths of the test image (at most 6 pixels) and
\* 1, 2 or 4 sections.
Boundaries(width, scaled_seps, replicate_count, equal_samples) ==
  IF scaled_seps # <<>>
  THEN <<0>> \o sorted(scaled_seps) \o <<width>>
  ELSE LET num_sections == IF equal_samples THEN replicate_count * 2
                           ELSE replicate_count
       IN [i \in 1..(num_sections + 1) |-> ((i - 1) * width) \div num_sections]

\* gray_roi[:, s_x:e_x] as one sequence of pixels, row by row.
Section(gray, s_x, e_x) ==
  LET w == e_x - s_x
  IN [k \in 1..(Height(gray) * w) |->
        gray[((k - 1) \div w) + 1][s_x + ((k - 1) % w) + 1]]

\* Twice np.median(section): the middle pixel, or the mean of the two
\* middle pixels.
Median2(px) ==
  LET n == Len(px)
      Kth(k) == CHOOSE v \in Range(px) :
                  /\ Cardinality({i \in 1..n : px[i] < v}) < k
                  /\ Cardinality({i \in 1..n : px[i] <= v}) >= k
  IN IF n % 2 = 1 THEN 2 * Kth((n + 1) \div 2)
     ELSE Kth(n \div 2) + Kth((n \div 2) + 1)

\* n^2 times the population variance np.std(section)^2.
VarianceN2(px) ==
  LET n == Len(px)
  IN n * SumSeq([i \in 1..n |-> px[i] * px[i]]) - SumSeq(px) * SumSeq(px)

\* The whole part of the square root of b, 0 <= b < 2^31.
RECURSIVE ISqrtBetween(_, _, _)
ISqrtBetween(b, lo, hi) ==
  IF lo = hi THEN lo
  ELSE IF ((lo + hi + 1) \div 2) * ((lo + hi + 1) \div 2) <= b
       THEN ISqrtBetween(b, (lo + hi + 1) \div 2, hi)
       ELSE ISqrtBetween(b, lo, ((lo + hi + 1) \div 2) - 1)

ISqrt(b) == ISqrtBetween(b, 0, 46340)

\* lane_mask > 0: pixel p > lane_background + 0.2 * std.  On 8-bit pixels
\* cv2.threshold compares with the floor of the threshold, which selects the
\* same pixels.  With m2 = 2 * median and n pixels:
\*   p - m2/2 > 0.2 std  <=>  2p > m2  and  (5 (2p - m2) n)^2 > 4 n^2 var,
\* and a whole number a >= 0 has a^2 > b exactly when a > ISqrt(b).
InMask(p, px) ==
  /\ 2 * p > Median2(px)
  /\ 5 * (2 * p - Median2(px)) * Len(px) > ISqrt(4 * VarianceN2(px))

\* Variant: every lane runs to the right edge of the region.
lane_span_to_edge(width, b_lo, b_hi) == <<Max(0, b_lo), width>>

\* s_x and e_x of a lane: its boundaries kept within the region.
lane_span(width, b_lo, b_hi) == <<Max(0, b_lo), Min(width, b_hi)>>

\* Variant: every pixel above the median counts, whatever the deviation.
LaneIntensity_above_median(gray, b_lo, b_hi) ==
  LET s_x == lane_span(Width(gray), b_lo, b_hi)[1]
      e_x == lane_span(Width(gray), b_lo, b_hi)[2]
  IN IF e_x <= s_x THEN 0
     ELSE LET px == Section(gray, s_x, e_x)
              m2 == Median2(px)
          IN SumSeq([k \in DOMAIN px |->
                       IF 2 * px[k] > m2 THEN 2 * px[k] - m2 ELSE 0])

\* One lane: 0.0 for an empty lane, else the sum of (pixel - median) over the
\* mask (doubled).
LaneIntensity(gray, b_lo, b_hi) ==
  LET s_x == lane_span(Width(gray), b_lo, b_hi)[1]
      e_x == lane_span(Width(gray), b_lo, b_hi)[2]
  IN IF e_x <= s_x THEN 0
     ELSE LET px == Section(gray, s_x, e_x)
              m2 == Median2(px)
          IN SumSeq([k \in DOMAIN px |->
                       IF InMask(px[k], px) THEN 2 * px[k] - m2 ELSE 0])

LaneIntensities(gray, boundaries) ==
  [i \in 1..(Len(boundaries) - 1) |->
     LaneIntensity(gray, boundaries[i], boundaries[i + 1])]


----------------------------------------------------------------------------
(* Measurement records and the matching of refresh_analysis *)

GroupOrder == <<"Control", "Treatment">>

IsLC(e) == e.type = "Loading Control"

IsTarget(e) == e.type = "Target"

MaxOf(S) == CHOOSE m \in S : \A x \in S : x <= m

\* list.index(e): the first position whose record EQUALS e.
history_index(h, e) ==
  CHOOSE k \in 1..Len(h) : h[k] = e /\ \A j \in 1..(k - 1) : h[j] # e

\* positions of the group's Loading Control records (group_lcs)
group_lcs(h, group) == {k \in 1..Len(h) : IsLC(h[k]) /\ h[k].group = group}

\* positions of the group's Target records (group_targets)
group_targets(h, group) == {k \in 1..Len(h) : IsTarget(h[k]) /\ h[k].group = group}

\* t_entries[-1]: the position of the last Target record of the group with
\* that name, 0 when there is none.
t_entry(h, group, t_name) ==
  LET t_entries == {k \in group_targets(h, group) : h[k].name = t_name}
  IN IF t_entries = {} THEN 0 ELSE MaxOf(t_entries)

\* Variant: only a Loading Control before the Target is ever matched.
t_lc_entry_no_fallback(h, e) ==
  LET target_in_history_idx == history_index(h, e)
      applicable_lcs == {k \in group_lcs(h, e.group) : k < target_in_history_idx}
  IN IF applicable_lcs # {} THEN MaxOf(applicable_lcs) ELSE 0

\* t_lc_entry for the record e found at some position of h: the last Loading
\* Control of the group before list.index(e), else the group's last Loading
\* Control, else None (0).
t_lc_entry(h, e) ==
  LET target_in_history_idx == history_index(h, e)
      applicable_lcs == {k \in group_lcs(h, e.group) : k < target_in_history_idx}
  IN IF applicable_lcs # {} THEN MaxOf(applicable_lcs)
     ELSE IF group_lcs(h, e.group) # {} THEN MaxOf(group_lcs(h, e.group))
     ELSE 0

\* unique_target_names: the Target names in the order of their first record.
RECURSIVE UniqueNames(_, _)
UniqueNames(h, acc) ==
  IF h = <<>> THEN acc
  ELSE UniqueNames(Tail(h),
         IF IsTarget(Head(h)) /\ Head(h).name \notin Range(acc)
         THEN Append(acc, Head(h).name) ELSE acc)

unique_target_names(h) == UniqueNames(h, <<>>)

\* e['intensities'][i] if i < len(e['intensities']) else 0, lane i 0-based
ValueAt(intensities, i) ==
  IF i < Len(intensities) THEN intensities[i + 1] ELSE 0

\* excluded_samples.get(group, [])
Excluded(ex, group) == IF group \in DOMAIN ex THEN ex[group] ELSE <<>>

\* Variant: no lane counts as excluded.
is_excluded_ignored(ex, group, i) == FALSE

is_excluded(ex, group, i) == i \in Range(Excluded(ex, group))

Fraction(n, d) == [num |-> n \div GCD(n, d), den |-> d \div GCD(n, d)]

Dash == [shown |-> FALSE, val |-> 0]

NoRatio == [shown |-> FALSE, num |-> 0, den |-> 1]

\* Variant: the ratio is written whenever the control is positive.
RatioCell_any_target(t_val, t_lc_val) ==
  IF t_lc_val > 0
  THEN [shown |-> TRUE, num |-> Fraction(t_val, t_lc_val).num,
        den |-> Fraction(t_val, t_lc_val).den]
  ELSE NoRatio

\* The ratio cell of a row: norm = t_val / t_lc_val when both are positive,
\* else "-".
RatioCell(t_val, t_lc_val) ==
  IF t_lc_val > 0 /\ t_val > 0
  THEN [shown |-> TRUE, num |-> Fraction(t_val, t_lc_val).num,
        den |-> Fraction(t_val, t_lc_val).den]
  ELSE NoRatio

\* The two cells (Raw, Ratio) of target t_name in row i of a group.
TargetCells(h, group, t_name, i) ==
  LET k == t_entry(h, group, t_name)
  IN IF k = 0 THEN [raw |-> Dash, ratio |-> NoRatio, lc |-> 0]
     ELSE LET lc == t_lc_entry(h, h[k])
              t_val == ValueAt(h[k].intensities, i)
              t_lc_val == IF lc # 0 THEN ValueAt(h[lc].intensities, i) ELSE 0
          IN [raw |-> IF t_val > 0 THEN [shown |-> TRUE, val |-> t_val] ELSE Dash,
              ratio |-> RatioCell(t_val, t_lc_val),
              lc |-> lc]

max_reps(h, group) ==
  LET lens == {Len(h[k].intensities) : k \in group_lcs(h, group) \cup group_targets(h, group)}
  IN IF lens = {} THEN 0 ELSE MaxOf(lens)

\* The text before the lane number in the Sample ID.
SampleLabel(h, group) ==
  LET detail == IF group_targets(h, group) # {} THEN h[MaxOf(group_targets(h, group))].detail
                ELSE IF group_lcs(h, group) # {} THEN h[MaxOf(group_lcs(h, group))].detail
                ELSE "Sample"
  IN IF detail \notin {"None", "Generic Treatment"} THEN detail ELSE group

\* One replicate row (lane i, 0-based) of a group item.
TreeRow(h, ex, group, i) ==
  LET names == unique_target_names(h)
      lcs == group_lcs(h, group)
  IN [label |-> SampleLabel(h, group),
      lane |-> i,
      excluded |-> is_excluded(ex, group, i),
      lc |-> IF lcs # {} /\ i < Len(h[MaxOf(lcs)].intensities)
             THEN [shown |-> TRUE, val |-> h[MaxOf(lcs)].intensities[i + 1]]
             ELSE Dash,
      targets |-> [n \in DOMAIN names |->
                     LET c == TargetCells(h, group, names[n], i)
                     IN [raw |-> c.raw, ratio |-> c.ratio]]]

all_groups(h) == SelectSeq(GroupOrder, LAMBDA g : \E k \in 1..Len(h) : h[k].group = g)

\* The group items of the results tree with their replicate rows.
TreeOf(h, ex) ==
  LET groups == all_groups(h)
  IN [n \in DOMAIN groups |->
        [group |-> groups[n],
         rows |-> [r \in 1..max_reps(h, groups[n]) |->
                     TreeRow(h, ex, groups[n], r - 1)]]]


----------------------------------------------------------------------------
(* refresh_analysis: the summary of the latest target *)

\* One value of latest_normalized_data with the lane it came from.
LaneValue(lane, cell) == [lane |-> lane, num |-> cell.num, den |-> cell.den]

\* The rows of group g that add a value for t_name: those that show a ratio
\* and are not excluded, in lane order.
counted_lanes(h, ex, g, t_name) ==
  SelectSeq([r \in 1..max_reps(h, g) |-> r - 1],
            LAMBDA i : /\ TargetCells(h, g, t_name, i).ratio.shown
                       /\ ~is_excluded(ex, g, i))

\* The values a group adds for t_name.
group_values(h, g, t_name, lanes) ==
  [k \in DOMAIN lanes |->
     LaneValue(lanes[k], TargetCells(h, g, t_name, lanes[k]).ratio)]

\* A dict holds a key only once a value was appended under it.
WithoutEmpty(d) == [g \in {x \in DOMAIN d : d[x] # <<>>} |-> d[g]]

\* Variant: the summary is about the name of the last Target record.
latest_target_name_last_appended(h) ==
  LET targets == {k \in 1..Len(h) : IsTarget(h[k])}
  IN IF targets = {} THEN "Target" ELSE h[MaxOf(targets)].name

\* unique_target_names[-1] if unique_target_names else "Target"
latest_target_name(h) ==
  IF unique_target_names(h) = <<>> THEN "Target"
  ELSE Last(unique_target_names(h))

\* latest_normalized_data: group -> the ratios of the latest target name, in
\* lane order, of the rows that show a ratio and are not excluded.  Each
\* value carries the lane it came from.
latest_normalized_data(h, ex) ==
  WithoutEmpty([g \in Range(all_groups(h)) |->
                  IF unique_target_names(h) = <<>> THEN <<>>
                  ELSE group_values(h, g, latest_target_name(h),
                         counted_lanes(h, ex, g, latest_target_name(h)))])

EmptyDict == [g \in {} |-> <<>>]

\* The label before any analysis, and after Start Over.
NoAnalysisYet ==
  [kind |-> "No analysis performed yet.", name |-> "", data |-> EmptyDict,
   change |-> FALSE, pvalue |-> FALSE]

AnalyzeBoth ==
  [kind |-> "Analyze both Loading Control and Target to see results.",
   name |-> "", data |-> EmptyDict, change |-> FALSE, pvalue |-> FALSE]

\* np.mean(v) != 0 for ratios, which are never negative
MeanNonZero(v) == \E k \in DOMAIN v : v[k].num # 0

\* "Control" in groups and "Treatment" in groups
BothGroups(data) == "Control" \in DOMAIN data /\ "Treatment" \in DOMAIN data

\* The summary lines written for latest_normalized_data: the latest target
\* name, the values behind each group average, whether the Change line and
\* the P-Value line are written.
SummaryFrom(data, name, ttest) ==
  IF DOMAIN data = {} THEN AnalyzeBoth
  ELSE [kind |-> "Latest Results",
        name |-> name,
        data |-> data,
        change |-> BothGroups(data) /\ MeanNonZero(data["Control"]),
        pvalue |-> /\ ttest
                   /\ BothGroups(data)
                   /\ Len(data["Control"]) > 1
                   /\ Len(data["Treatment"]) > 1]

SummaryOf(h, ex, ttest) ==
  SummaryFrom(latest_normalized_data(h, ex), latest_target_name(h), ttest)

\* refresh_analysis: the tree is cleared and rebuilt; with no record at all
\* the function returns before it writes the summary label.
refresh_analysis(h, ex, ttest, old_summary) ==
  IF h = <<>> THEN [tree |-> <<>>, summary |-> old_summary]
  ELSE [tree |-> TreeOf(h, ex), summary |-> SummaryOf(h, ex, ttest)]


----------------------------------------------------------------------------
(* process_roi, part 2: the records appended to the history.              *)
(* A selection sel holds the region, the separator positions and the      *)
(* widget values read by apply_selection and process_roi.                 *)

Zeros(n) == [i \in 1..n |-> 0]

\* Variant: the zeros are put behind the measured lanes.
PaddedIntensities_trailing(intensities, start_idx) ==
  LET start_offset == start_idx - 1
  IN IF start_offset > 0 THEN intensities \o Zeros(start_offset) ELSE intensities

\* intensities after the start-lane padding
PaddedIntensities(intensities, start_idx) ==
  LET start_offset == start_idx - 1
  IN IF start_offset > 0 THEN Zeros(start_offset) \o intensities ELSE intensities

\* The records process_roi appends for the padded intensities.
NewRecords(sel, intensities) ==
  LET group_type == IF sel.group_treat THEN "Treatment" ELSE "Control"
      mode == IF sel.mode_control THEN "Loading Control" ELSE "Target"
      protein_name == IF sel.name # "" THEN sel.name ELSE mode
      treatment_detail ==
        IF sel.detail # "" THEN sel.detail
        ELSE IF group_type = "Control" THEN "None" ELSE "Generic Treatment"
      mid == Len(intensities) \div 2
  IN IF sel.equal_n
     THEN << [type |-> mode, group |-> "Control", detail |-> "None",
              name |-> protein_name,
              intensities |-> SubSeq(intensities, 1, mid)],
             [type |-> mode, group |-> "Treatment", detail |-> treatment_detail,
              name |-> protein_name,
              intensities |-> SubSeq(intensities, mid + 1, Len(intensities))] >>
     ELSE << [type |-> mode, group |-> group_type, detail |-> treatment_detail,
              name |-> protein_name, intensities |-> intensities] >>

\* Variant: the new records are put in front of the history.
appended_in_front(h, records) == records \o h

\* analysis_history.append(...) for each new record in turn
appended(h, records) == h \o records

\* The lanes measured and the records made of them.
measured(sel, boundaries, lanes) ==
  [ok |-> TRUE, boundaries |-> boundaries, lanes |-> lanes,
   records |-> NewRecords(sel, PaddedIntensities(lanes, sel.start_idx))]

\* Variant: an empty extraction still appends a record without lanes.
process_extracted_no_return(extracted, sel, boundaries) ==
  IF ~extracted.ok THEN measured(sel, <<>>, <<>>)
  ELSE measured(sel, boundaries, LaneIntensities(extracted.gray, boundaries))

\* process_roi after extract_roi_data: nothing for an empty extraction, else
\* the lane intensities between the boundaries and the records.
process_extracted(extracted, sel, boundaries) ==
  IF ~extracted.ok THEN [ok |-> FALSE, boundaries |-> <<>>, lanes |-> <<>>,
                         records |-> <<>>]
  ELSE measured(sel, boundaries, LaneIntensities(extracted.gray, boundaries))

\* the boundaries process_roi determines for an extraction
boundaries_of(extracted, sel) ==
  IF ~extracted.ok THEN <<>>
  ELSE Boundaries(Width(extracted.gray), extracted.seps, sel.reps, sel.equal_n)

process_with(extracted, sel) ==
  process_extracted(extracted, sel, boundaries_of(extracted, sel))

\* What process_roi computes from the image: the extraction, the lane
\* boundaries, the lane intensities and the records to append.
process_roi(img, angle, dw, dh, sel) ==
  process_with(extract_roi_data(img, angle, dw, dh, sel.roi, sel.seps), sel)

----------------------------------------------------------------------------
(* The canvas: AnalysisCanvas and the region fields of the window.         *)
(* A rectangle is <<x, y, width, height>> as in QRectF; a separator is the *)
(* vertical line [x, top, bottom].                                         *)

\* no rectangle: None, or the attribute not yet set
NoRect == <<>>

NoPoint == <<>>

\* AnalysisCanvas.__init__
NewCanvas ==
  [current_rect_item |-> NoRect, start_pos |-> NoPoint, is_drawing |-> FALSE,
   is_resizing |-> FALSE, is_dragging_sep |-> FALSE, active_sep |-> 0,
   resize_edge |-> "None", separators |-> <<>>]

\* AnalysisCanvas.clear_selection: the rectangle and the separators go
clear_selection(gv) ==
  [gv EXCEPT !.current_rect_item = NoRect, !.separators = <<>>]

\* Variant: the region and its separators stay after the handler.
clear_region_keeps_selection ==
  UNCHANGED <<graphics_view, separators, current_roi_rect, last_roi_rect>>

\* The end of display_image, apply_selection and a confirmed Start Over:
\* the canvas selection is cleared and the window forgets the region.
clear_region ==
  /\ graphics_view' = clear_selection(graphics_view)
  /\ separators' = <<>>
  /\ current_roi_rect' = NoRect
  /\ UNCHANGED last_roi_rect

\* No handler is under way: the event loop waits for the next event.
Idle == [op |-> "idle", pending |-> <<>>, tags |-> <<>>, refreshes |-> 0]

----------------------------------------------------------------------------
(* Initial state: BlotQuant.__init__ and setup_ui *)

Init ==
  /\ image = NoImage
  /\ rotation_angle = 0
  /\ display_width = 800
  /\ display_height = 600
  /\ ttest_check = TRUE
  /\ group_history = <<>>
  /\ analysis_history = <<>>
  /\ excluded_samples = EmptyDict
  /\ results_tree = <<>>
  /\ summary_text = NoAnalysisYet
  /\ graphics_view = NewCanvas
  /\ separators = <<>>
  /\ current_roi_rect = NoRect
  /\ last_roi_rect = NoRect
  /\ frame = Idle
  /\ origin = <<>>
  /\ lastOp = "init"

----------------------------------------------------------------------------
(* Handlers *)

\* display_image: with an image, the display size follows the image and the
\* angle.
display_image(img, angle) ==
  IF img = NoImage
  THEN UNCHANGED <<display_width, display_height, canvas>>
  ELSE /\ display_width' = DisplaySize(img, angle)[1]
       /\ display_height' = DisplaySize(img, angle)[2]
       /\ clear_region

\* load_image: the file dialog gives no path, an unreadable file (imread
\* returns None) or an image; the rotation is reset.
load_image(file) ==
  /\ lastOp' = "load_image"
  /\ IF file = "cancel"
     THEN UNCHANGED <<image, rotation_angle, display_width, display_height,
                      canvas>>
     ELSE /\ image' = (IF file = "blot" THEN Blot ELSE NoImage)
          /\ rotation_angle' = 0
          /\ display_image(image', 0)
  /\ UNCHANGED <<ttest_check, group_history, analysis_history, excluded_samples,
                 results_tree, summary_text, origin, frame>>

\* rotate_image: the slider moved to another value.
rotate_image(value) ==
  /\ value # rotation_angle
  /\ lastOp' = "rotate_image"
  /\ rotation_angle' = value
  /\ display_image(image, value)
  /\ UNCHANGED <<image, ttest_check, group_history, analysis_history,
                 excluded_samples, results_tree, summary_text, origin, frame>>

\* The Welch check box is clicked; nothing is recomputed.
toggle_ttest ==
  /\ lastOp' = "ttest_check"
  /\ ttest_check' = ~ttest_check
  /\ UNCHANGED <<image, rotation_angle, display_width, display_height,
                 group_history, analysis_history, excluded_samples,
                 results_tree, summary_text, origin, canvas, frame>>


\* refresh_analysis writes the table and the summary label.
Shown(shown) ==
  /\ results_tree' = shown.tree
  /\ summary_text' = shown.summary

\* Variant: the lanes the registry excludes are stored as 0.
store_and_display_excluded_zeroed(sel, res) ==
  IF ~res.ok
  THEN /\ lastOp' = "measure_empty"
       /\ UNCHANGED <<analysis_history, results_tree, summary_text, origin>>
  ELSE /\ lastOp' = "measure"
       /\ analysis_history' =
            appended(analysis_history,
                     [k \in DOMAIN res.records |->
                        [res.records[k] EXCEPT
                           !.intensities =
                              [i \in DOMAIN res.records[k].intensities |->
                                 IF is_excluded(excluded_samples,
                                                res.records[k].group, i - 1)
                                 THEN 0
                                 ELSE res.records[k].intensities[i]]]])
       /\ origin' = origin \o (IF sel.equal_n THEN <<"eqC", "eqT">>
                               ELSE <<"single">>)
       /\ Shown(refresh_analysis(analysis_history', excluded_samples,
                                 ttest_check, summary_text))

\* process_roi, part 3 (Storage and Display): nothing after an empty
\* extraction, else the records are appended and refresh_analysis runs.
store_and_display(sel, res) ==
  IF ~res.ok
  THEN /\ lastOp' = "measure_empty"
       /\ UNCHANGED <<analysis_history, results_tree, summary_text, origin>>
  ELSE /\ lastOp' = "measure"
       /\ analysis_history' = appended(analysis_history, res.records)
       /\ origin' = origin \o (IF sel.equal_n THEN <<"eqC", "eqT">>
                               ELSE <<"single">>)
       /\ Shown(refresh_analysis(analysis_history', excluded_samples,
                                 ttest_check, summary_text))

\* apply_selection (QUANTIFY SELECTION) on a drawn selection: without a name
\* a warning and nothing else; else the group name is remembered, then
\* process_roi appends the records and refresh_analysis runs, or returns at
\* once when the extraction gives nothing; at the end the canvas selection
\* is cleared.
apply_selection(sel) ==
  IF sel.name = ""
  THEN /\ lastOp' = "apply_noname"
       /\ UNCHANGED <<image, rotation_angle, display_width, display_height,
                      ttest_check, group_history, analysis_history,
                      excluded_samples, results_tree, summary_text, origin,
                      canvas, frame>>
  ELSE /\ group_history' =
            IF sel.detail # "" /\ sel.detail \notin Range(group_history)
            THEN Append(group_history, sel.detail) ELSE group_history
       /\ store_and_display(sel, process_roi(image, rotation_angle,
                                             display_width, display_height,
                                             sel))
       /\ clear_region
       /\ UNCHANGED <<image, rotation_angle, display_width, display_height,
                      ttest_check, excluded_samples, frame>>

\* Variant: undo takes both records of an Equal N measurement at once.
undo_last_pair ==
  /\ lastOp' = "undo_last"
  /\ IF analysis_history # <<>>
     THEN LET n == IF Last(origin) = "eqT" THEN 2 ELSE 1
          IN /\ analysis_history' =
                  SubSeq(analysis_history, 1, Len(analysis_history) - n)
             /\ origin' = SubSeq(origin, 1, Len(origin) - n)
             /\ Shown(refresh_analysis(analysis_history', excluded_samples,
                                       ttest_check, summary_text))
     ELSE UNCHANGED <<analysis_history, origin, results_tree, summary_text>>
  /\ UNCHANGED <<image, rotation_angle, display_width, display_height,
                 ttest_check, group_history, excluded_samples, canvas, frame>>

\* Variant: undo drops the exclusion lists once the history is empty.
undo_last_prunes_registry ==
  /\ lastOp' = "undo_last"
  /\ IF analysis_history # <<>>
     THEN /\ analysis_history' = Front(analysis_history)
          /\ origin' = Front(origin)
          /\ excluded_samples' = IF analysis_history' = <<>> THEN EmptyDict
                                 ELSE excluded_samples
          /\ Shown(refresh_analysis(analysis_history', excluded_samples',
                                    ttest_check, summary_text))
     ELSE UNCHANGED <<analysis_history, origin, results_tree, summary_text,
                      excluded_samples>>
  /\ UNCHANGED <<image, rotation_angle, display_width, display_height,
                 ttest_check, group_history, canvas, frame>>

\* undo_last: pop the last record and refresh; nothing on an empty history.
undo_last ==
  /\ lastOp' = "undo_last"
  /\ IF analysis_history # <<>>
     THEN /\ analysis_history' = Front(analysis_history)
          /\ origin' = Front(origin)
          /\ Shown(refresh_analysis(analysis_history', excluded_samples,
                                    ttest_check, summary_text))
     ELSE UNCHANGED <<analysis_history, origin, results_tree, summary_text>>
  /\ UNCHANGED <<image, rotation_angle, display_width, display_height,
                 ttest_check, group_history, excluded_samples, canvas, frame>>

\* list.remove(idx): without the first occurrence of idx
RECURSIVE Remove(_, _)
Remove(s, idx) ==
  IF s = <<>> THEN <<>>
  ELSE IF Head(s) = idx THEN Tail(s)
  ELSE <<Head(s)>> \o Remove(Tail(s), idx)

\* Variant: the index is appended whether or not the list holds it.
Toggled_append_only(ex, group_name, idx) ==
  [g \in DOMAIN ex \cup {group_name} |->
     IF g = group_name THEN Append(Excluded(ex, g), idx) ELSE Excluded(ex, g)]

\* The registry after toggle_exclusion(group_name, idx).
Toggled(ex, group_name, idx) ==
  LET with_key == [g \in DOMAIN ex \cup {group_name} |-> Excluded(ex, g)]
  IN [with_key EXCEPT ![group_name] =
        IF idx \in Range(with_key[group_name])
        THEN Remove(with_key[group_name], idx)
        ELSE Append(with_key[group_name], idx)]

\* toggle_exclusion from the context menu of a replicate row of the tree.
toggle_exclusion(group_name, idx) ==
  /\ \E n \in DOMAIN results_tree :
       /\ results_tree[n].group = group_name
       /\ idx < Len(results_tree[n].rows)
  /\ lastOp' = "toggle_exclusion"
  /\ excluded_samples' = Toggled(excluded_samples, group_name, idx)
  /\ Shown(refresh_analysis(analysis_history, excluded_samples',
                            ttest_check, summary_text))
  /\ UNCHANGED <<image, rotation_angle, display_width, display_height,
                 ttest_check, group_history, analysis_history, origin, canvas, frame>>

\* Variant: a confirmed Start Over that keeps the exclusion registry.
start_over_keeps_registry(reply) ==
  IF reply = "Yes"
  THEN /\ lastOp' = "start_over"
       /\ analysis_history' = <<>>
       /\ origin' = <<>>
       /\ results_tree' = <<>>
       /\ image' = NoImage
       /\ rotation_angle' = 0
       /\ summary_text' = NoAnalysisYet
       /\ clear_region
       /\ UNCHANGED <<display_width, display_height, ttest_check, group_history,
                      excluded_samples, frame>>
  ELSE /\ lastOp' = "start_over_no"
       /\ UNCHANGED <<image, rotation_angle, display_width, display_height,
                      ttest_check, group_history, analysis_history,
                      excluded_samples, results_tree, summary_text, origin,
                      canvas, frame>>

\* start_over: after a Yes everything is cleared and the image dropped;
\* the slider goes back to 0 while no image is held.
start_over(reply) ==
  IF reply = "Yes"
  THEN /\ lastOp' = "start_over"
       /\ analysis_history' = <<>>
       /\ origin' = <<>>
       /\ excluded_samples' = EmptyDict
       /\ results_tree' = <<>>
       /\ image' = NoImage
       /\ rotation_angle' = 0
       /\ summary_text' = NoAnalysisYet
       /\ clear_region
       /\ UNCHANGED <<display_width, display_height, ttest_check, group_history,
                      frame>>
  ELSE /\ lastOp' = "start_over_no"
       /\ UNCHANGED <<image, rotation_angle, display_width, display_height,
                      ttest_check, group_history, analysis_history,
                      excluded_samples, results_tree, summary_text, origin,
                      canvas, frame>>


----------------------------------------------------------------------------
(* export_data and copy_to_clipboard: the values behind the summary rows *)

\* final_vals of one Target record at position k whose Loading Control is at
\* position lc: t / lc (0 where the control is 0) over the common lanes,
\* without the excluded lanes.  Each value carries its lane.
final_vals(h, ex, k, lc) ==
  LET lc_ints == h[lc].intensities
      t_ints == h[k].intensities
      min_len == Min(Len(lc_ints), Len(t_ints))
      norm_vals == [i \in 1..min_len |->
                      IF lc_ints[i] # 0
                      THEN [lane |-> i - 1, num |-> Fraction(t_ints[i], lc_ints[i]).num,
                            den |-> Fraction(t_ints[i], lc_ints[i]).den]
                      ELSE [lane |-> i - 1, num |-> 0, den |-> 1]]
  IN SelectSeq(norm_vals, LAMBDA v : ~is_excluded(ex, h[k].group, v.lane))

\* normalized_results: {target name: {group: final_vals}}, filled record by
\* record in history order, a later record of the same name and group
\* replacing the earlier one.
RECURSIVE NormalizedResults(_, _, _, _)
NormalizedResults(h, ex, k, acc) ==
  IF k > Len(h) THEN acc
  ELSE IF ~IsTarget(h[k]) THEN NormalizedResults(h, ex, k + 1, acc)
  ELSE LET t_name == h[k].name
           acc1 == [n \in DOMAIN acc \cup {t_name} |->
                      IF n \in DOMAIN acc THEN acc[n] ELSE EmptyDict]
           lc == t_lc_entry(h, h[k])
           acc2 == IF lc = 0 THEN acc1
                   ELSE [acc1 EXCEPT ![t_name] =
                           [g \in DOMAIN acc1[t_name] \cup {h[k].group} |->
                              IF g = h[k].group THEN final_vals(h, ex, k, lc)
                              ELSE acc1[t_name][g]]]
       IN NormalizedResults(h, ex, k + 1, acc2)

normalized_results(h, ex) == NormalizedResults(h, ex, 1, EmptyDict)

\* The "% Change" row of a target name in the workbook and the clipboard
\* text: both keys present, Control values, a Control mean other than 0; the
\* Treatment mean is taken as 0 when the Treatment list is empty.
export_change(groups) ==
  /\ BothGroups(groups)
  /\ groups["Control"] # <<>>
  /\ MeanNonZero(groups["Control"])

\* The "P-value" row: both keys present and more than one value each.
export_pvalue(groups) ==
  /\ BothGroups(groups)
  /\ Len(groups["Control"]) > 1
  /\ Len(groups["Treatment"]) > 1

\* The summary table of the workbook and of the clipboard text: for each
\* target name the values of each group and the two rows below them.
export_summary(h, ex) ==
  [t_name \in DOMAIN normalized_results(h, ex) |->
     [data |-> normalized_results(h, ex)[t_name],
      change |-> export_change(normalized_results(h, ex)[t_name]),
      pvalue |-> export_pvalue(normalized_results(h, ex)[t_name])]]

\* export_data: a warning on an empty history; else the workbook is written
\* from the history and the registry, which stay as they are.
export_data ==
  /\ lastOp' = "export_data"
  /\ UNCHANGED <<image, rotation_angle, display_width, display_height,
                 ttest_check, group_history, analysis_history,
                 excluded_samples, results_tree, summary_text, origin, canvas, frame>>

\* copy_to_clipboard: the same for the clipboard.
copy_to_clipboard ==
  /\ lastOp' = "copy_to_clipboard"
  /\ UNCHANGED <<image, rotation_angle, display_width, display_height,
                 ttest_check, group_history, analysis_history,
                 excluded_samples, results_tree, summary_text, origin, canvas, frame>>

----------------------------------------------------------------------------
(* measure, undo and toggle statement by statement: the mutation of the    *)
(* history or of the registry, the call of refresh_analysis, the return.   *)

\* The frame of a handler that has just been entered.
entered(op, records, tags) ==
  [op |-> op, pending |-> records, tags |-> tags, refreshes |-> 0]

\* apply_selection with a name and process_roi up to its storage part, the
\* extraction not being empty: the group name is remembered and the records
\* are made; none is appended yet.
process_roi_enter(sel) ==
  /\ frame = Idle
  /\ sel.name # ""
  /\ process_roi(image, rotation_angle, display_width, display_height, sel).ok
  /\ lastOp' = "process_roi"
  /\ group_history' =
       IF sel.detail # "" /\ sel.detail \notin Range(group_history)
       THEN Append(group_history, sel.detail) ELSE group_history
  /\ frame' = entered("process_roi",
                      process_roi(image, rotation_angle, display_width,
                                  display_height, sel).records,
                      IF sel.equal_n THEN <<"eqC", "eqT">> ELSE <<"single">>)
  /\ UNCHANGED <<image, rotation_angle, display_width, display_height,
                 ttest_check, analysis_history, excluded_samples,
                 results_tree, summary_text, origin, canvas>>

\* One self.analysis_history.append(...) of process_roi.
append_record ==
  /\ frame.op = "process_roi"
  /\ frame.refreshes = 0
  /\ frame.pending # <<>>
  /\ lastOp' = "append"
  /\ analysis_history' = Append(analysis_history, Head(frame.pending))
  /\ origin' = Append(origin, Head(frame.tags))
  /\ frame' = [frame EXCEPT !.pending = Tail(@), !.tags = Tail(@)]
  /\ UNCHANGED <<image, rotation_angle, display_width, display_height,
                 ttest_check, group_history, excluded_samples, results_tree,
                 summary_text, canvas>>

\* undo_last on a history with records: self.analysis_history.pop().
undo_pop ==
  /\ frame = Idle
  /\ analysis_history # <<>>
  /\ lastOp' = "pop"
  /\ analysis_history' = Front(analysis_history)
  /\ origin' = Front(origin)
  /\ frame' = entered("undo_last", <<>>, <<>>)
  /\ UNCHANGED <<image, rotation_angle, display_width, display_height,
                 ttest_check, group_history, excluded_samples, results_tree,
                 summary_text, canvas>>

\* toggle_exclusion up to its last line: the index is added to or removed
\* from the list of the group.
toggle_list(group_name, idx) ==
  /\ frame = Idle
  /\ \E n \in DOMAIN results_tree :
       /\ results_tree[n].group = group_name
       /\ idx < Len(results_tree[n].rows)
  /\ lastOp' = "toggle_list"
  /\ excluded_samples' = Toggled(excluded_samples, group_name, idx)
  /\ frame' = entered("toggle_exclusion", <<>>, <<>>)
  /\ UNCHANGED <<image, rotation_angle, display_width, display_height,
                 ttest_check, group_history, analysis_history, results_tree,
                 summary_text, origin, canvas>>

\* Variant: process_roi calls refresh_analysis after each append.
call_refresh_analysis_each_append ==
  /\ frame.op # "idle"
  /\ frame.refreshes = 0 \/ frame.pending # <<>>
  /\ frame.op = "process_roi" => Len(frame.pending) < 2
  /\ lastOp' = "refresh_analysis"
  /\ Shown(refresh_analysis(analysis_history, excluded_samples, ttest_check,
                            summary_text))
  /\ frame' = [frame EXCEPT !.refreshes = IF frame.pending = <<>> THEN 1 ELSE 0]
  /\ UNCHANGED <<image, rotation_angle, display_width, display_height,
                 ttest_check, group_history, analysis_history,
                 excluded_samples, origin, canvas>>

\* self.refresh_analysis(), the last statement of process_roi, undo_last and
\* toggle_exclusion.
call_refresh_analysis ==
  /\ frame.op # "idle"
  /\ frame.pending = <<>>
  /\ frame.refreshes = 0
  /\ lastOp' = "refresh_analysis"
  /\ Shown(refresh_analysis(analysis_history, excluded_samples, ttest_check,
                            summary_text))
  /\ frame' = [frame EXCEPT !.refreshes = @ + 1]
  /\ UNCHANGED <<image, rotation_angle, display_width, display_height,
                 ttest_check, group_history, analysis_history,
                 excluded_samples, origin, canvas>>

\* The handler returns to the event loop; apply_selection clears the region
\* after process_roi.
handler_return ==
  /\ frame.op # "idle"
  /\ frame.pending = <<>>
  /\ frame.refreshes > 0
  /\ lastOp' = (IF frame.op = "process_roi" THEN "measure" ELSE frame.op)
  /\ IF frame.op = "process_roi" THEN clear_region ELSE UNCHANGED canvas
  /\ frame' = Idle
  /\ UNCHANGED <<image, rotation_angle, display_width, display_height,
                 ttest_check, group_history, analysis_history,
                 excluded_samples, results_tree, summary_text, origin>>

----------------------------------------------------------------------------
(* Selections: what the user draws and sets before QUANTIFY SELECTION *)

Sel(roi, seps, name, detail, mode_control, group_treat, reps, equal_n, start_idx) ==
  [roi |-> roi, seps |-> seps, name |-> name, detail |-> detail,
   mode_control |-> mode_control, group_treat |-> group_treat,
   reps |-> reps, equal_n |-> equal_n, start_idx |-> start_idx]

\* Regions <<x, y, width, height>> on the 800 x 600 display of Blot, each
\* image column being 200 wide.
RoiLeft == <<0, 0, 400, 600>>

RoiMiddle == <<200, 0, 400, 600>>

RoiRight == <<400, 0, 400, 600>>

RoiAll == <<0, 0, 800, 600>>

RoiClick == <<300, 200, 0, 0>>

RoiThin == <<0, 0, 100, 600>>

RoiOutside == <<900, 0, 200, 600>>

----------------------------------------------------------------------------
(* Canvas handlers: the mouse events of AnalysisCanvas and on_roi_selected. *)
(* Mouse positions are scene coordinates <<x, y>>.  The positions used are  *)
(* multiples of 4 and at most 3 separators are placed, so every separator   *)
(* position x1 + width * (i + 1) / (num_seps + 1) is a whole number and the *)
(* float arithmetic of the source is exact; width * 0.05 is compared with a *)
(* whole number d, and d > width * 0.05 exactly when 20 * d > width.        *)

Abs(x) == IF x < 0 THEN -x ELSE x

Left(r) == r[1]

Right(r) == r[1] + r[3]

Top(r) == r[2]

Bottom(r) == r[2] + r[4]

\* QRectF.normalized(): corners swapped where the width or height is negative
normalized(r) ==
  <<IF r[3] < 0 THEN r[1] + r[3] ELSE r[1],
    IF r[4] < 0 THEN r[2] + r[4] ELSE r[2], Abs(r[3]), Abs(r[4])>>

\* QRectF.isNull(): no width and no height; the truth value of a QRectF
isNull(r) == r[3] = 0 /\ r[4] = 0

\* QRectF.contains(point) of a normalized rectangle: edges included, nothing
\* inside a rectangle without width or without height
contains(r, pos) ==
  /\ r[3] # 0
  /\ r[4] # 0
  /\ Left(r) <= pos[1] /\ pos[1] <= Right(r)
  /\ Top(r) <= pos[2] /\ pos[2] <= Bottom(r)

Line(x, top, bottom) == [x |-> x, top |-> top, bottom |-> bottom]

\* expected_num of separators for the widgets' values
expected_num(replicate_count, equal_samples) ==
  IF equal_samples THEN (replicate_count * 2) - 1 ELSE replicate_count - 1

\* _should_regenerate_seps(new_rect); last is last_roi_rect, NoRect while
\* the attribute is not set.
should_regenerate_seps(seps, last, new_rect, replicate_count, equal_samples) ==
  IF seps = <<>> THEN TRUE
  ELSE IF Len(seps) # expected_num(replicate_count, equal_samples) THEN TRUE
  ELSE /\ last # NoRect
       /\ 20 * Abs(new_rect[3] - last[3]) > new_rect[3]

\* update_separators: the separators evenly spaced over the rectangle of the
\* canvas, none when the canvas has no rectangle.
update_separators(rect, replicate_count, equal_samples) ==
  IF rect = NoRect THEN <<>>
  ELSE LET num_seps == expected_num(replicate_count, equal_samples)
       IN [i \in 1..num_seps |->
             Line(Left(rect) + (rect[3] * i) \div (num_seps + 1),
                  Top(rect), Bottom(rect))]

\* The rectangle on_roi_selected works with: under Lock ROI Size the size of
\* the last region at the top-left corner of the new one.
locked_rect(last, rect, lock) ==
  IF lock /\ last # NoRect /\ ~isNull(last)
  THEN <<rect[1], rect[2], last[3], last[4]>>
  ELSE rect

\* The separators after on_roi_selected: as they are while a separator is
\* dragged; regenerated when there are none, during the first drag of a
\* drawing or when _should_regenerate_seps says so; else the same x with the
\* vertical extent of the region.
separators_after(gv, seps, last, r, replicate_count, equal_samples) ==
  IF gv.is_dragging_sep THEN seps
  ELSE IF \/ seps = <<>>
          \/ gv.is_drawing
          \/ should_regenerate_seps(seps, last, r, replicate_count,
                                    equal_samples)
       THEN update_separators(r, replicate_count, equal_samples)
       ELSE [k \in DOMAIN seps |-> Line(seps[k].x, Top(r), Bottom(r))]

\* The canvas after on_roi_selected: its rectangle is the locked one; its
\* list is the window's list once update_separators has run, and its lines
\* are the window's lines.
canvas_after(gv, seps, last, r, replicate_count, equal_samples) ==
  [gv EXCEPT
     !.current_rect_item = r,
     !.separators =
        IF gv.is_dragging_sep THEN gv.separators
        ELSE IF \/ seps = <<>>
                \/ gv.is_drawing
                \/ should_regenerate_seps(seps, last, r, replicate_count,
                                          equal_samples)
             THEN update_separators(r, replicate_count, equal_samples)
             ELSE IF gv.separators = <<>> THEN <<>>
             ELSE [k \in DOMAIN seps |-> Line(seps[k].x, Top(r), Bottom(r))]]

\* on_roi_selected(rect), called by the canvas gv as it emits roi_selected,
\* the widgets holding lock, replicate_count and equal_samples.
on_roi_selected(gv, rect, lock, replicate_count, equal_samples) ==
  /\ graphics_view' = canvas_after(gv, separators, last_roi_rect,
                                   locked_rect(last_roi_rect, rect, lock),
                                   replicate_count, equal_samples)
  /\ separators' = separators_after(gv, separators, last_roi_rect,
                                    locked_rect(last_roi_rect, rect, lock),
                                    replicate_count, equal_samples)
  /\ current_roi_rect' = locked_rect(last_roi_rect, rect, lock)
  /\ last_roi_rect' = locked_rect(last_roi_rect, rect, lock)

\* What the handlers of the canvas leave alone.
not_canvas ==
  <<image, rotation_angle, display_width, display_height, ttest_check,
    group_history, analysis_history, excluded_samples, results_tree,
    summary_text, origin, frame>>

\* The separators of the canvas within 5 of x
near_separators(gv, x) ==
  {i \in DOMAIN gv.separators : Abs(gv.separators[i].x - x) < 5}

\* The canvas after mousePressEvent(pos): a separator within 5 is taken
\* (active_sep counts from 1 here, 0 is None); else an edge of the rectangle
\* within 10; else nothing inside the rectangle; else a new drawing starts.
pressed(gv, pos) ==
  LET rect == gv.current_rect_item
      near_left == Abs(pos[1] - Left(rect)) < 10
      near_right == Abs(pos[1] - Right(rect)) < 10
      near_top == Abs(pos[2] - Top(rect)) < 10
      near_bottom == Abs(pos[2] - Bottom(rect)) < 10
      drawing == [clear_selection(gv) EXCEPT
                    !.is_drawing = TRUE, !.start_pos = pos,
                    !.current_rect_item = <<pos[1], pos[2], 0, 0>>]
  IN IF near_separators(gv, pos[1]) # {}
     THEN [gv EXCEPT !.is_dragging_sep = TRUE,
                     !.active_sep =
                        CHOOSE i \in near_separators(gv, pos[1]) :
                          \A j \in near_separators(gv, pos[1]) : i <= j]
     ELSE IF rect = NoRect THEN drawing
     ELSE IF /\ near_left \/ near_right
             /\ Top(rect) <= pos[2] /\ pos[2] <= Bottom(rect)
          THEN [gv EXCEPT !.is_resizing = TRUE,
                          !.resize_edge = IF near_left THEN "left" ELSE "right"]
     ELSE IF /\ near_top \/ near_bottom
             /\ Left(rect) <= pos[1] /\ pos[1] <= Right(rect)
          THEN [gv EXCEPT !.is_resizing = TRUE,
                          !.resize_edge = IF near_top THEN "top" ELSE "bottom"]
     ELSE IF contains(rect, pos) THEN gv
     ELSE drawing

mousePressEvent(pos) ==
  /\ lastOp' = "mousePressEvent"
  /\ graphics_view' = pressed(graphics_view, pos)
  /\ UNCHANGED <<separators, current_roi_rect, last_roi_rect>>
  /\ UNCHANGED not_canvas

\* The separators after the active one was dragged to pos, kept within the
\* rectangle.
dragged(seps, active_sep, rect, pos) ==
  [seps EXCEPT ![active_sep] =
     Line(Max(Left(rect), Min(Right(rect), pos[1])), Top(rect), Bottom(rect))]

\* The mouse is over a separator of the canvas (the hover check).
found_sep(gv, pos) ==
  \E i \in DOMAIN gv.separators :
    /\ Abs(gv.separators[i].x - pos[1]) < 8
    /\ Min(gv.separators[i].top, gv.separators[i].bottom) - 5 <= pos[2]
    /\ pos[2] <= Max(gv.separators[i].top, gv.separators[i].bottom) + 5

\* The rectangle after its resize_edge was moved to pos
resized(rect, resize_edge, pos) ==
  normalized(
    IF resize_edge = "left"
    THEN <<pos[1], rect[2], rect[3] - (pos[1] - rect[1]), rect[4]>>
    ELSE IF resize_edge = "right"
    THEN <<rect[1], rect[2], pos[1] - rect[1], rect[4]>>
    ELSE IF resize_edge = "top"
    THEN <<rect[1], pos[2], rect[3], rect[4] - (pos[2] - rect[2])>>
    ELSE IF resize_edge = "bottom"
    THEN <<rect[1], rect[2], rect[3], pos[2] - rect[2]>>
    ELSE rect)

\* mouseMoveEvent(pos): a dragged separator follows the mouse and nothing is
\* emitted; over a separator, or with no gesture going on, only the cursor
\* changes; a drawing or a resize sets the rectangle and emits roi_selected.
mouseMoveEvent(pos, lock, replicate_count, equal_samples) ==
  /\ lastOp' = "mouseMoveEvent"
  /\ UNCHANGED not_canvas
  /\ IF graphics_view.is_dragging_sep
     THEN IF graphics_view.current_rect_item = NoRect
          THEN /\ graphics_view' = [graphics_view EXCEPT !.is_dragging_sep = FALSE]
               /\ UNCHANGED <<separators, current_roi_rect, last_roi_rect>>
          ELSE /\ graphics_view' =
                    [graphics_view EXCEPT
                       !.separators = dragged(@, graphics_view.active_sep,
                                              graphics_view.current_rect_item,
                                              pos)]
               /\ separators' = graphics_view'.separators
               /\ UNCHANGED <<current_roi_rect, last_roi_rect>>
     ELSE IF \/ found_sep(graphics_view, pos)
             \/ ~graphics_view.is_drawing /\ ~graphics_view.is_resizing
          THEN UNCHANGED canvas
     ELSE IF graphics_view.is_drawing
          THEN IF graphics_view.current_rect_item = NoRect
               THEN UNCHANGED canvas
               ELSE on_roi_selected(
                      graphics_view,
                      normalized(<<graphics_view.start_pos[1],
                                   graphics_view.start_pos[2],
                                   pos[1] - graphics_view.start_pos[1],
                                   pos[2] - graphics_view.start_pos[2]>>),
                      lock, replicate_count, equal_samples)
     ELSE IF graphics_view.current_rect_item = NoRect
          THEN /\ graphics_view' = [graphics_view EXCEPT !.is_resizing = FALSE]
               /\ UNCHANGED <<separators, current_roi_rect, last_roi_rect>>
          ELSE on_roi_selected(
                 graphics_view,
                 resized(graphics_view.current_rect_item,
                         graphics_view.resize_edge, pos),
                 lock, replicate_count, equal_samples)

\* The canvas once mouseReleaseEvent has reset the flags of the gesture
released(gv) ==
  [gv EXCEPT !.is_drawing = FALSE, !.is_resizing = FALSE,
             !.is_dragging_sep = FALSE, !.active_sep = 0,
             !.resize_edge = "None"]

\* mouseReleaseEvent: the flags are reset, then roi_selected is emitted with
\* the rectangle of the canvas, if it has one.
mouseReleaseEvent(lock, replicate_count, equal_samples) ==
  /\ lastOp' = "mouseReleaseEvent"
  /\ UNCHANGED not_canvas
  /\ IF graphics_view.current_rect_item = NoRect
     THEN /\ graphics_view' = released(graphics_view)
          /\ UNCHANGED <<separators, current_roi_rect, last_roi_rect>>
     ELSE on_roi_selected(released(graphics_view),
                          graphics_view.current_rect_item,
                          lock, replicate_count, equal_samples)

\* The selection apply_selection reads from the canvas and the widgets: the
\* rectangle of the canvas, else current_roi_rect, and the x of each
\* separator of the window.
canvas_selection(name, mode_control, replicate_count, equal_samples) ==
  Sel(IF graphics_view.current_rect_item # NoRect
      THEN graphics_view.current_rect_item ELSE current_roi_rect,
      [k \in DOMAIN separators |-> separators[k].x],
      name, "", mode_control, FALSE, replicate_count, equal_samples, 1)

\* QUANTIFY SELECTION clicked on what the canvas holds: nothing without a
\* rectangle on the canvas and a region in the window.
quantify_selection(name, mode_control, replicate_count, equal_samples) ==
  IF /\ graphics_view.current_rect_item = NoRect
     /\ current_roi_rect = NoRect \/ isNull(current_roi_rect)
  THEN /\ lastOp' = "apply_noregion"
       /\ UNCHANGED not_canvas
       /\ UNCHANGED canvas
  ELSE apply_selection(canvas_selection(name, mode_control, replicate_count,
                                        equal_samples))

\* Session bounds: the longest history a measure may produce, and the
\* highest lane index a toggle may exclude.
MaxHist == 2

\* apply_selection on sel while the history stays within n records
Fits(sel, n) ==
  Len(analysis_history) + (IF sel.equal_n THEN 2 ELSE 1) <= n

SessionSelections ==
  {Sel(RoiLeft, <<>>, "Actin", "", TRUE, FALSE, 2, FALSE, 1)}
  \cup {Sel(RoiAll, <<200, 400, 600>>, "pAKT", "", FALSE, FALSE, 2, TRUE, st) :
          st \in 1..2}
  \cup {Sel(roi, <<>>, "pAKT", "", FALSE, FALSE, 2, FALSE, 1) :
          roi \in {RoiClick, RoiThin, RoiOutside}}
  \cup {Sel(RoiLeft, <<>>, "", "", TRUE, FALSE, 2, FALSE, 1)}

\* A whole session: every handler of the window, the first row of each group
\* being the one the user double-clicks.
Next ==
  \/ \E file \in {"cancel", "unreadable", "blot"} : load_image(file)
  \/ \E value \in Angles : rotate_image(value)
  \/ toggle_ttest
  \/ \E sel \in SessionSelections : Fits(sel, MaxHist) /\ apply_selection(sel)
  \/ undo_last
  \/ \E g \in Range(GroupOrder) : toggle_exclusion(g, 0)
  \/ \E reply \in {"Yes", "No"} : start_over(reply)
  \/ export_data
  \/ copy_to_clipboard

Spec == Init /\ [][Next]_vars

-----------------------------------------------------------------------------
\* Measuring sessions on one unrotated image: a two-lane loading control with
\* an empty second lane, a one-lane loading control, a two-lane Control target
\* with an empty first lane, a one-lane Control target, and a Treatment target
\* with a custom detail.

MatchMaxHist == 4

MatchSelections ==
  {Sel(RoiMiddle, <<>>, "Actin", "", TRUE, FALSE, 2, FALSE, 1),
   Sel(RoiRight, <<>>, "Actin", "", TRUE, FALSE, 1, FALSE, 1),
   Sel(RoiRight, <<>>, "pAKT", "", FALSE, FALSE, 2, FALSE, 1),
   Sel(RoiLeft, <<>>, "ERK", "", FALSE, FALSE, 1, FALSE, 1),
   Sel(RoiMiddle, <<>>, "pAKT", "Ins", FALSE, TRUE, 2, FALSE, 1)}

NextMatch ==
  \/ load_image("blot")
  \/ \E sel \in MatchSelections :
       Fits(sel, MatchMaxHist) /\ apply_selection(sel)
  \/ undo_last

SpecMatch == Init /\ [][NextMatch]_vars

-----------------------------------------------------------------------------
\* Double-clicking rows: both groups measured at once (Equal N), as loading
\* control and as target, and a second target of Control alone.

ExclMaxHist == 4

MaxLane == 1

ExclSelections ==
  {Sel(RoiAll, <<200, 400, 600>>, "Actin", "", TRUE, FALSE, 2, TRUE, 1),
   Sel(RoiAll, <<200, 400, 600>>, "pAKT", "", FALSE, FALSE, 2, TRUE, 1),
   Sel(RoiMiddle, <<>>, "ERK", "", FALSE, FALSE, 2, FALSE, 1)}

NextExcl ==
  \/ load_image("blot")
  \/ \E sel \in ExclSelections :
       Fits(sel, ExclMaxHist) /\ apply_selection(sel)
  \/ \E g \in Range(GroupOrder), i \in 0..MaxLane : toggle_exclusion(g, i)
  \/ export_data
  \/ copy_to_clipboard

SpecExcl == Init /\ [][NextExcl]_vars

-----------------------------------------------------------------------------
\* Statistics: both groups measured at once (Equal N) as loading control and
\* as target, on the image as loaded or turned, with the Welch check box,
\* double-clicks on the rows, the workbook and the clipboard.

StatsMaxHist == 4

StatsMaxLane == 1

StatsSelections ==
  {Sel(RoiAll, <<200, 400, 600>>, "Actin", "", TRUE, FALSE, 2, TRUE, 1),
   Sel(RoiAll, <<200, 400, 600>>, "pAKT", "", FALSE, FALSE, 2, TRUE, 1)}

NextStats ==
  \/ load_image("blot")
  \/ \E value \in Angles : rotate_image(value)
  \/ toggle_ttest
  \/ \E sel \in StatsSelections :
       Fits(sel, StatsMaxHist) /\ apply_selection(sel)
  \/ \E g \in Range(GroupOrder), i \in 0..StatsMaxLane : toggle_exclusion(g, i)
  \/ export_data
  \/ copy_to_clipboard

SpecStats == Init /\ [][NextStats]_vars

-----------------------------------------------------------------------------
\* Start lanes: one group measured region by region, the first lane of a
\* region being lane 1 or lane 2 of the gel, with double-clicks on the rows
\* and undo.

PadMaxHist == 3

PadMaxLane == 2

PadSelections ==
  {Sel(RoiLeft, <<>>, "Actin", "", TRUE, FALSE, 2, FALSE, 1),
   Sel(RoiLeft, <<>>, "Actin", "", TRUE, FALSE, 2, FALSE, 2),
   Sel(RoiMiddle, <<>>, "pAKT", "", FALSE, FALSE, 2, FALSE, 2),
   Sel(RoiRight, <<>>, "ERK", "", FALSE, FALSE, 2, FALSE, 1)}

NextPad ==
  \/ load_image("blot")
  \/ \E sel \in PadSelections : Fits(sel, PadMaxHist) /\ apply_selection(sel)
  \/ \E i \in 0..PadMaxLane : toggle_exclusion("Control", i)
  \/ undo_last

SpecPad == Init /\ [][NextPad]_vars

-----------------------------------------------------------------------------
\* Drawing on the canvas: a region is drawn with the mouse over the loaded
\* image, its separators are dragged, its edges moved, the widgets being set
\* to one or two replicates, with or without Equal N and Lock ROI Size, and
\* the selection is quantified as a loading control.

CanvasMaxHist == 1

\* Where the mouse is pressed: a corner of the image, the middle of the
\* region drawn from it, and just right of that region.
PressPoints == {<<0, 0>>, <<204, 300>>, <<416, 300>>}

\* Where the mouse is moved to with the button down.
MovePoints == {<<396, 300>>, <<408, 600>>}

CanvasReps == {1, 2}

\* A mouse button is down: between a press and its release.
ButtonDown == lastOp \in {"mousePressEvent", "mouseMoveEvent"}

\* Lock ROI Size stays unchecked in this session.
CanvasLock == {FALSE}

NextCanvas ==
  \/ ~ButtonDown /\ load_image("blot")
  \/ \E pos \in PressPoints : ~ButtonDown /\ mousePressEvent(pos)
  \/ \E pos \in MovePoints, lock \in CanvasLock, reps \in CanvasReps,
        equal_n \in BOOLEAN :
       ButtonDown /\ mouseMoveEvent(pos, lock, reps, equal_n)
  \/ \E lock \in CanvasLock, reps \in CanvasReps, equal_n \in BOOLEAN :
       ButtonDown /\ mouseReleaseEvent(lock, reps, equal_n)
  \/ \E reps \in CanvasReps, equal_n \in BOOLEAN :
       /\ ~ButtonDown
       /\ Len(analysis_history) + (IF equal_n THEN 2 ELSE 1) <= CanvasMaxHist
       /\ quantify_selection("Actin", TRUE, reps, equal_n)

SpecCanvas == Init /\ [][NextCanvas]_vars

-----------------------------------------------------------------------------
\* Statement by statement: an Equal N loading control and a target are
\* measured, the last record is undone and lanes are excluded, each handler
\* running from its first statement to its return before the next begins.

StepMaxHist == 3

StepSelections ==
  {Sel(RoiAll, <<200, 400, 600>>, "Actin", "", TRUE, FALSE, 2, TRUE, 1),
   Sel(RoiRight, <<>>, "pAKT", "", FALSE, TRUE, 1, FALSE, 1)}

NextSteps ==
  \/ frame = Idle /\ load_image("blot")
  \/ \E sel \in StepSelections : Fits(sel, StepMaxHist) /\ process_roi_enter(sel)
  \/ append_record
  \/ undo_pop
  \/ frame = Idle /\ analysis_history = <<>> /\ undo_last
  \/ \E g \in Range(GroupOrder) : toggle_list(g, 0)
  \/ call_refresh_analysis
  \/ handler_return

SpecSteps == Init /\ [][NextSteps]_vars

-----------------------------------------------------------------------------
\* One lane: an image is loaded, one of the 2 x 2 images over four grey
\* values or the image of a band (10 rows of ten pixels 155 and one pixel
\* 55, which inverted are 100 and 200), and the whole of it is measured as
\* one lane.

LaneMaxHist == 1

LaneValues == {0, 154, 155, 255}

BandImage == [r \in 1..10 |-> [c \in 1..11 |-> IF c = 11 THEN 55 ELSE 155]]

LaneImages ==
  {<< <<a, b>>, <<c, d>> >> : a \in LaneValues, b \in LaneValues,
                             c \in LaneValues, d \in LaneValues}
    \cup {BandImage}

\* The state after load_image of one of the images.
InitLane ==
  /\ image \in LaneImages
  /\ rotation_angle = 0
  /\ display_width = DisplaySize(image, 0)[1]
  /\ display_height = DisplaySize(image, 0)[2]
  /\ ttest_check = TRUE
  /\ group_history = <<>>
  /\ analysis_history = <<>>
  /\ excluded_samples = EmptyDict
  /\ results_tree = <<>>
  /\ summary_text = NoAnalysisYet
  /\ graphics_view = NewCanvas
  /\ separators = <<>>
  /\ current_roi_rect = NoRect
  /\ last_roi_rect = NoRect
  /\ frame = Idle
  /\ origin = <<>>
  /\ lastOp = "load_image"

\* The region over the whole display, one replicate, no separator.
WholeImage ==
  Sel(<<0, 0, display_width, display_height>>, <<>>, "Actin", "", TRUE, FALSE,
      1, FALSE, 1)

NextLane == Fits(WholeImage, LaneMaxHist) /\ apply_selection(WholeImage)

SpecLane == InitLane /\ [][NextLane]_vars

-----------------------------------------------------------------------------
\* Separators anywhere: the two middle columns of the image, or the whole
\* image, are measured with up to two separators left of the region, on its
\* edges, inside it, on top of each other or right of it, in any order.

PartMaxHist == 2

\* Scaled to the middle columns these are -1, 0, 1, 1, 2 and 3, the region
\* being 2 wide; scaled to the whole image 0, 1, 2, 2, 3 and 4.
SepPositions == {0, 200, 400, 500, 600, 800}

PartSelections ==
  {Sel(roi, seps, "Actin", "", TRUE, FALSE, 2, FALSE, 1) :
     roi \in {<<200, 0, 400, 600>>, RoiAll},
     seps \in {<<>>} \cup {<<a>> : a \in SepPositions}
               \cup {<<a, b>> : a \in SepPositions, b \in SepPositions}}

NextPart ==
  \/ load_image("blot")
  \/ \E sel \in PartSelections : Fits(sel, PartMaxHist) /\ apply_selection(sel)

SpecPart == Init /\ [][NextPart]_vars

-----------------------------------------------------------------------------
\* Lock ROI Size on the canvas: with two replicates a region is drawn from
\* the corner of the image, its separator dragged, its right edge moved,
\* or the mouse is clicked elsewhere, the Lock ROI Size box being checked
\* or not at each event, and the selection is quantified.

LockMaxHist == 1

\* The region r lies within the displayed image.
InScene(r) ==
  \/ r = NoRect
  \/ /\ 0 <= Left(r) /\ Right(r) <= display_width
     /\ 0 <= Top(r) /\ Bottom(r) <= display_height

LockPressPoints == {<<0, 0>>, <<416, 300>>}

LockMovePoints == {<<408, 600>>}

NextLock ==
  \/ ~ButtonDown /\ load_image("blot")
  \/ \E pos \in LockPressPoints : ~ButtonDown /\ mousePressEvent(pos)
  \/ \E pos \in LockMovePoints, lock \in BOOLEAN :
       /\ ButtonDown
       /\ mouseMoveEvent(pos, lock, 2, FALSE)
       /\ InScene(current_roi_rect')
  \/ \E lock \in BOOLEAN :
       /\ ButtonDown
       /\ mouseReleaseEvent(lock, 2, FALSE)
       /\ InScene(current_roi_rect')
  \/ /\ ~ButtonDown
     /\ Len(analysis_history) < LockMaxHist
     /\ quantify_selection("Actin", TRUE, 2, FALSE)

SpecLock == Init /\ [][NextLock]_vars

-----------------------------------------------------------------------------
\* Quantifying twice: regions are drawn, resized and clicked away, and
\* QUANTIFY SELECTION is clicked with or without a protein name, also right
\* after a measurement.

ConsumeMaxHist == 2

ConsumeNames == {"Actin", ""}

NextConsume ==
  \/ ~ButtonDown /\ load_image("blot")
  \/ \E pos \in PressPoints : ~ButtonDown /\ mousePressEvent(pos)
  \/ \E pos \in MovePoints :
       ButtonDown /\ mouseMoveEvent(pos, FALSE, 2, FALSE)
  \/ ButtonDown /\ mouseReleaseEvent(FALSE, 2, FALSE)
  \/ \E name \in ConsumeNames :
       /\ ~ButtonDown
       /\ Len(analysis_history) < ConsumeMaxHist
       /\ quantify_selection(name, TRUE, 2, FALSE)

SpecConsume == Init /\ [][NextConsume]_vars

-----------------------------------------------------------------------------
\* Resizing in several moves: a region is drawn over the left half of the
\* image with two replicates, and an edge of a region so drawn is taken and
\* moved once or several times before the button is released.

DrawnRegion == <<0, 0, 408, 600>>

ResizePressPoints == {<<0, 0>>, <<416, 300>>}

ResizeMovePoints == {<<408, 600>>, <<396, 300>>, <<380, 300>>}

NextResize ==
  \/ ~ButtonDown /\ load_image("blot")
  \/ \E pos \in ResizePressPoints :
       /\ ~ButtonDown
       /\ pressed(graphics_view, pos).is_resizing
            => graphics_view.current_rect_item = DrawnRegion
       /\ mousePressEvent(pos)
  \/ \E pos \in ResizeMovePoints :
       ButtonDown /\ mouseMoveEvent(pos, FALSE, 2, FALSE)
  \/ ButtonDown /\ mouseReleaseEvent(FALSE, 2, FALSE)

SpecResize == Init /\ [][NextResize]_vars

-----------------------------------------------------------------------------
(* Properties *)

\* The Loading Control nearest before position k of the same group, 0 when
\* there is none.
NearestPrecedingLC(h, k) ==
  LET preceding == {j \in group_lcs(h, h[k].group) : j < k}
  IN IF preceding = {} THEN 0 ELSE MaxOf(preceding)

\* C1 (matching rule): in every reachable history, duplicates of equal records
\* included, each ratio shown for a Target record is taken against the
\* Loading Control of its group nearest before the Target's own position,
\* whenever there is one; a later one is never used.
C1_MatchingRule ==
  LET h == analysis_history
      names == unique_target_names(h)
  IN \A n \in DOMAIN results_tree : \A c \in DOMAIN names :
       LET k == t_entry(h, results_tree[n].group, names[c])
           lc == IF k = 0 THEN 0 ELSE NearestPrecedingLC(h, k)
       IN lc # 0 =>
            \A r \in DOMAIN results_tree[n].rows :
              results_tree[n].rows[r].targets[c].ratio =
                RatioCell(ValueAt(h[k].intensities, r - 1),
                          ValueAt(h[lc].intensities, r - 1))

\* C2 (ratio law): in the table, the ratio of lane i of a Target record T
\* against its matched Loading Control C is T[i]/C[i] exactly when i < len(T),
\* i < len(C), T[i] > 0 and C[i] > 0; otherwise the cell holds the placeholder
\* and the summary data of the latest target holds no value of that lane; so
\* at most min(len(C), len(T)) ratios are defined.
C2_RatioLaw ==
  LET h == analysis_history
      names == unique_target_names(h)
  IN \A n \in DOMAIN results_tree : \A c \in DOMAIN names :
       LET g == results_tree[n].group
           rows == results_tree[n].rows
           k == t_entry(h, g, names[c])
           lc == IF k = 0 THEN 0 ELSE t_lc_entry(h, h[k])
           T == IF k = 0 THEN <<>> ELSE h[k].intensities
           C == IF lc = 0 THEN <<>> ELSE h[lc].intensities
           defined(i) == /\ i < Len(T)
                         /\ i < Len(C)
                         /\ T[i + 1] > 0
                         /\ C[i + 1] > 0
       IN /\ \A r \in DOMAIN rows :
               LET cell == rows[r].targets[c].ratio
               IN IF defined(r - 1)
                  THEN /\ cell.shown
                       /\ cell.den > 0
                       /\ cell.num * C[r] = cell.den * T[r]
                  ELSE /\ cell = NoRatio
                       /\ (c = Len(names) /\ g \in DOMAIN summary_text.data) =>
                            \A d \in DOMAIN summary_text.data[g] :
                              summary_text.data[g][d].lane # r - 1
          /\ Cardinality({r \in DOMAIN rows : rows[r].targets[c].ratio.shown})
               <= Min(Len(C), Len(T))

\* A measurement has just been shown with one ratio defined and, in the same
\* column, a lane beyond the end of the Target record; another column holds a
\* lane whose control is 0 under a positive target.
C2_Witness ==
  LET h == analysis_history
      names == unique_target_names(h)
  IN /\ lastOp = "measure"
     /\ \E n \in DOMAIN results_tree : \E c \in DOMAIN names :
          LET k == t_entry(h, results_tree[n].group, names[c])
              rows == results_tree[n].rows
          IN /\ k # 0
             /\ \E r \in DOMAIN rows : rows[r].targets[c].ratio.shown
             /\ \E r \in DOMAIN rows : r > Len(h[k].intensities)
     /\ \E n \in DOMAIN results_tree : \E c \in DOMAIN names :
          LET k == t_entry(h, results_tree[n].group, names[c])
              lc == IF k = 0 THEN 0 ELSE t_lc_entry(h, h[k])
          IN /\ lc # 0
             /\ \E r \in DOMAIN results_tree[n].rows :
                  /\ ValueAt(h[k].intensities, r - 1) > 0
                  /\ r <= Len(h[lc].intensities)
                  /\ h[lc].intensities[r] = 0
                  /\ ~results_tree[n].rows[r].targets[c].ratio.shown

\* C3 (exclusion law): for every group and every lane in its exclusion list,
\* no value of that lane is among the values behind the on-screen summary nor
\* among those behind the exported and copied summaries of any target name,
\* while the lane's row stays in the table with its raw values.
C3_ExclusionLaw ==
  LET h == analysis_history
      ex == excluded_samples
      exported == normalized_results(h, ex)
  IN \A g \in DOMAIN ex : \A x \in DOMAIN ex[g] :
       LET i == ex[g][x]
       IN /\ g \in DOMAIN summary_text.data =>
               \A d \in DOMAIN summary_text.data[g] :
                 summary_text.data[g][d].lane # i
          /\ \A t_name \in DOMAIN exported :
               g \in DOMAIN exported[t_name] =>
                 \A d \in DOMAIN exported[t_name][g] :
                   exported[t_name][g][d].lane # i
          /\ \A n \in DOMAIN results_tree :
               results_tree[n].group = g =>
                 /\ i < Len(results_tree[n].rows)
                 /\ results_tree[n].rows[i + 1] =
                      [TreeOf(h, EmptyDict)[n].rows[i + 1]
                         EXCEPT !.excluded = TRUE]

\* The workbook is written while a lane whose ratio the table shows for the
\* latest target is excluded, and the other lane of the group still counts.
C3_Witness ==
  LET names == unique_target_names(analysis_history)
  IN /\ lastOp = "export_data"
     /\ \E n \in DOMAIN results_tree :
          LET g == results_tree[n].group
              rows == results_tree[n].rows
          IN /\ g \in DOMAIN excluded_samples
             /\ g \in DOMAIN summary_text.data
             /\ \E x \in DOMAIN excluded_samples[g] :
                  rows[excluded_samples[g][x] + 1].targets[Len(names)].ratio.shown

\* C4 (undo law): a successful measure that appends one record, followed at
\* once by undo, leaves the history as it was before the measure, and the
\* table and the summary shown after the undo are those shown before the
\* measure; the history before the measure may be empty.
C4_UndoLaw ==
  [][(lastOp' = "measure" /\ Last(origin') = "single") =>
       LET after_undo == refresh_analysis(Front(analysis_history'),
                                          excluded_samples', ttest_check',
                                          summary_text')
       IN /\ Front(analysis_history') = analysis_history
          /\ after_undo.tree = results_tree
          /\ after_undo.summary = summary_text]_vars

\* The image pixels inside a region of the display: columns and rows of the
\* (rotated) image whose positions fall in the scaled region.
CropPixels(img, angle, dw, dh, roi) ==
  IF img = NoImage THEN {}
  ELSE LET full == IF angle # 0 THEN warpAffine(img, angle) ELSE img
           x0 == Trunc(roi[1] * Width(full), dw)
           y0 == Trunc(roi[2] * Height(full), dh)
           x1 == x0 + Trunc(roi[3] * Width(full), dw)
           y1 == y0 + Trunc(roi[4] * Height(full), dh)
       IN {rc \in (1..Height(full)) \X (1..Width(full)) :
             /\ y0 < rc[1] /\ rc[1] <= y1
             /\ x0 < rc[2] /\ rc[2] <= x1}

\* A selection that measures nothing: no width or no height, no image, or no
\* pixel of the image inside the region.
EmptyRegion(sel) ==
  \/ sel.roi[3] <= 0
  \/ sel.roi[4] <= 0
  \/ image = NoImage
  \/ CropPixels(image, rotation_angle, display_width, display_height,
                sel.roi) = {}

\* C5 (empty region): a measure of a named selection whose region has no
\* width or no height, or made while no image is loaded, or whose crop holds
\* no pixel, appends no record: the history, the exclusion registry, the table
\* and the summary stay as they are, and the handler ends normally.
C5_EmptyRegion ==
  [][\A sel \in SessionSelections :
       (sel.name # "" /\ EmptyRegion(sel) /\ apply_selection(sel)) =>
         /\ lastOp' = "measure_empty"
         /\ analysis_history' = analysis_history
         /\ excluded_samples' = excluded_samples
         /\ results_tree' = results_tree
         /\ summary_text' = summary_text]_vars

\* A region was quantified while no image was held (the file chosen last
\* could not be read), with records in the history and a lane excluded.
C5_Witness ==
  /\ lastOp = "measure_empty"
  /\ image = NoImage
  /\ analysis_history # <<>>
  /\ \E g \in DOMAIN excluded_samples : excluded_samples[g] # <<>>

\* C6 (Equal-N append): in Equal-N mode with the region split into 2R lanes, a
\* successful measure appends exactly two records, Control then Treatment,
\* of the same type and name, Control holding the intensities of lanes 1..R
\* and Treatment those of lanes R+1..2R, whatever the start lane.
C6_EqualNAppend ==
  [][\A sel \in SessionSelections :
       (sel.equal_n /\ apply_selection(sel) /\ lastOp' = "measure") =>
         LET lanes == process_roi(image, rotation_angle, display_width,
                                  display_height, sel).lanes
             R == Len(lanes) \div 2
             n == Len(analysis_history)
             h == analysis_history'
         IN /\ Len(lanes) = 2 * R
            /\ Len(h) = n + 2
            /\ SubSeq(h, 1, n) = analysis_history
            /\ h[n + 1].group = "Control"
            /\ h[n + 2].group = "Treatment"
            /\ h[n + 1].type = h[n + 2].type
            /\ h[n + 1].name = h[n + 2].name
            /\ h[n + 1].intensities = SubSeq(lanes, 1, R)
            /\ h[n + 2].intensities = SubSeq(lanes, R + 1, 2 * R)]_vars

\* C7 (undo): undo removes the last record of the history and no other, and
\* changes nothing on an empty history; the registry, the image and the
\* widgets stay as they are.  Right after an Equal N measurement one undo takes
\* the Treatment record only: the Control record of the pair is then last, the
\* history differs from the one before the measurement, and a second undo
\* would give that one back.
C7_UndoOne ==
  [][lastOp' = "undo_last" =>
       /\ UNCHANGED <<image, rotation_angle, display_width, display_height,
                      ttest_check, group_history, excluded_samples>>
       /\ IF analysis_history = <<>>
          THEN UNCHANGED <<analysis_history, results_tree, summary_text>>
          ELSE analysis_history' = Front(analysis_history)
       /\ (lastOp = "measure" /\ Last(origin) = "eqT") =>
            LET before == SubSeq(analysis_history, 1, Len(analysis_history) - 2)
            IN /\ Last(origin') = "eqC"
               /\ Last(analysis_history').group = "Control"
               /\ Last(analysis_history') =
                    analysis_history[Len(analysis_history) - 1]
               /\ analysis_history' # before
               /\ Front(analysis_history') = before]_vars

\* One undo after an Equal N measurement: the Control record of the pair is
\* the last record.
C7_Witness ==
  /\ lastOp = "undo_last"
  /\ origin # <<>>
  /\ Last(origin) = "eqC"
  /\ Last(analysis_history).group = "Control"

\* C8 (append-only history): no handler changes, removes or reorders a record
\* already in the history, except undo, which removes the last one, and a
\* confirmed Start Over; after a successful measure the previous history is a
\* strict prefix of the new one; every other handler leaves the history as it
\* is.
C8_AppendOnly ==
  [][/\ lastOp' \notin {"undo_last", "start_over"} =>
          /\ Len(analysis_history') >= Len(analysis_history)
          /\ SubSeq(analysis_history', 1, Len(analysis_history))
               = analysis_history
     /\ lastOp' = "measure" => Len(analysis_history') > Len(analysis_history)
     /\ lastOp' \notin {"measure", "undo_last", "start_over"} =>
          analysis_history' = analysis_history
     /\ (lastOp' = "undo_last" /\ analysis_history # <<>>) =>
          analysis_history' = Front(analysis_history)]_vars

\* A measurement was appended behind earlier records.
C8_Witness ==
  /\ lastOp = "measure"
  /\ Len(analysis_history) >= 2
  /\ origin[1] = "single"

\* C9 (Start Over): after a Yes the history and the exclusion registry are
\* both empty and no image is held; after a No the history, the registry and
\* the image are what they were.
C9_StartOver ==
  [][/\ lastOp' = "start_over" =>
          /\ analysis_history' = <<>>
          /\ excluded_samples' = EmptyDict
          /\ image' = NoImage
     /\ lastOp' = "start_over_no" =>
          UNCHANGED <<analysis_history, excluded_samples, image>>]_vars

\* Start Over was confirmed: nothing is left, the display still having the
\* size of the rotated image that was dropped.
C9_Witness ==
  /\ lastOp = "start_over"
  /\ analysis_history = <<>>
  /\ excluded_samples = EmptyDict
  /\ image = NoImage
  /\ display_width # 800

\* i is in the exclusion list of group g
Member(ex, g, i) == i \in Range(Excluded(ex, g))

\* C10 (toggle): toggle_exclusion(g, i) flips whether i is excluded in g and
\* nothing else: the lists of the other groups, the other lanes of g and the
\* history stay as they are, no list holds an index twice, and the same
\* toggle once more would give back the membership there was before.
C10_Toggle ==
  [][\A g \in Range(GroupOrder), i \in 0..MaxLane :
       toggle_exclusion(g, i) =>
         LET ex == excluded_samples
             twice == Toggled(excluded_samples', g, i)
         IN /\ Member(excluded_samples', g, i) <=> ~Member(ex, g, i)
            /\ \A gg \in Range(GroupOrder), ii \in 0..MaxLane :
                 <<gg, ii>> # <<g, i>> =>
                   (Member(excluded_samples', gg, ii) <=> Member(ex, gg, ii))
            /\ \A gg \in Range(GroupOrder) \ {g} :
                 Excluded(excluded_samples', gg) = Excluded(ex, gg)
            /\ analysis_history' = analysis_history
            /\ \A gg \in DOMAIN excluded_samples' :
                 Cardinality(Range(excluded_samples'[gg]))
                   = Len(excluded_samples'[gg])
            /\ \A gg \in Range(GroupOrder), ii \in 0..MaxLane :
                 Member(twice, gg, ii) <=> Member(ex, gg, ii)]_vars

\* A row was toggled while its group already had another lane excluded and
\* the other group a lane too.
C10_Witness ==
  /\ lastOp = "toggle_exclusion"
  /\ DOMAIN excluded_samples = {"Control", "Treatment"}
  /\ Len(excluded_samples["Control"]) = 2
  /\ excluded_samples["Treatment"] # <<>>

\* C11 (registry frame): only toggle_exclusion and a confirmed Start Over
\* change the exclusion registry; a measure (appending or not), undo, a
\* rotation, the loading of an image and every other handler leave it as it
\* is.  So after a measure or an undo each row of the table is struck out
\* exactly when its lane is in the list its group had before the step, also
\* for a record appended after the one shown at the time of the toggle was
\* undone.
C11_RegistryFrame ==
  [][/\ lastOp' \notin {"toggle_exclusion", "start_over"} =>
          excluded_samples' = excluded_samples
     /\ lastOp' \in {"measure", "undo_last"} =>
          \A n \in DOMAIN results_tree' :
            \A r \in DOMAIN results_tree'[n].rows :
              results_tree'[n].rows[r].excluded
                <=> Member(excluded_samples, results_tree'[n].group, r - 1)]_vars

\* A record was measured into an empty history while lane 0 of its group was
\* still excluded from a record since undone: its first row is struck out.
C11_Witness ==
  /\ lastOp = "measure"
  /\ Len(analysis_history) = 1
  /\ Member(excluded_samples, analysis_history[1].group, 0)
  /\ results_tree[1].rows[1].excluded

\* C12 (full recomputation): after each mutation (a measure that appends, an
\* undo, a toggle of an exclusion, a confirmed Start Over) the table and the
\* summary on screen are those that refresh_analysis computes on a window
\* just constructed from the history, the registry and the significance flag
\* of the new state alone; nothing shown for an earlier history is left.
C12_FullRecomputation ==
  [][lastOp' \in {"measure", "undo_last", "toggle_exclusion", "start_over"} =>
       LET fresh == refresh_analysis(analysis_history', excluded_samples',
                                     ttest_check', NoAnalysisYet)
       IN /\ results_tree' = fresh.tree
          /\ summary_text' = fresh.summary]_vars

\* The values of a dict under a key, none when the key is missing.
ValuesOf(d, g) == IF g \in DOMAIN d THEN Range(d[g]) ELSE {}

\* C13 (undefined ratio in export): when the workbook or the clipboard text
\* is written, every value behind an exported mean, SEM and N comes from a
\* lane whose target intensity and matched control intensity are both
\* positive, and for the latest target name each group's exported values are
\* the values the on-screen summary aggregates for the same history and
\* registry.
C13_ExportUndefined ==
  lastOp \in {"export_data", "copy_to_clipboard"} =>
    LET h == analysis_history
        ex == excluded_samples
        exported == normalized_results(h, ex)
        onscreen == latest_normalized_data(h, ex)
        latest == latest_target_name(h)
    IN /\ \A t_name \in DOMAIN exported : \A g \in DOMAIN exported[t_name] :
            \A d \in DOMAIN exported[t_name][g] :
              LET k == t_entry(h, g, t_name)
                  lc == t_lc_entry(h, h[k])
                  i == exported[t_name][g][d].lane
              IN /\ ValueAt(h[k].intensities, i) > 0
                 /\ ValueAt(h[lc].intensities, i) > 0
       /\ \A g \in Range(GroupOrder) :
            ValuesOf(IF latest \in DOMAIN exported THEN exported[latest]
                     ELSE EmptyDict, g)
              = ValuesOf(onscreen, g)

\* C14 (matching fallback): a Target record T with no Loading Control of its
\* group before it is normalised, in the table and in the exported values,
\* against the group's last Loading Control, which then lies after T; when
\* the group has no Loading Control at all, every ratio of T is undefined and
\* T adds no value to the summary on screen nor to the exported ones.
C14_Fallback ==
  LET h == analysis_history
      ex == excluded_samples
      names == unique_target_names(h)
      exported == normalized_results(h, ex)
  IN \A n \in DOMAIN results_tree : \A c \in DOMAIN names :
       LET g == results_tree[n].group
           rows == results_tree[n].rows
           k == t_entry(h, g, names[c])
       IN (k # 0 /\ NearestPrecedingLC(h, k) = 0) =>
            IF group_lcs(h, g) # {}
            THEN LET lc == MaxOf(group_lcs(h, g))
                 IN /\ lc > k
                    /\ \A r \in DOMAIN rows :
                         rows[r].targets[c].ratio =
                           RatioCell(ValueAt(h[k].intensities, r - 1),
                                     ValueAt(h[lc].intensities, r - 1))
                    /\ g \in DOMAIN exported[names[c]]
                    /\ exported[names[c]][g] = final_vals(h, ex, k, lc)
            ELSE /\ \A r \in DOMAIN rows : rows[r].targets[c].ratio = NoRatio
                 /\ g \notin DOMAIN exported[names[c]]
                 /\ c = Len(names) => g \notin DOMAIN summary_text.data

\* A measurement has been shown where a Control target measured before any
\* Loading Control has a ratio against the later one, and a Treatment target
\* has no Loading Control at all.
C14_Witness ==
  LET h == analysis_history
      names == unique_target_names(h)
  IN /\ lastOp = "measure"
     /\ \E n \in DOMAIN results_tree : \E c \in DOMAIN names :
          LET k == t_entry(h, results_tree[n].group, names[c])
          IN /\ k # 0
             /\ NearestPrecedingLC(h, k) = 0
             /\ \E r \in DOMAIN results_tree[n].rows :
                  results_tree[n].rows[r].targets[c].ratio.shown
     /\ \E n \in DOMAIN results_tree : \E c \in DOMAIN names :
          /\ t_entry(h, results_tree[n].group, names[c]) # 0
          /\ group_lcs(h, results_tree[n].group) = {}

\* The position of the first Target record named t_name.
FirstTarget(h, t_name) ==
  CHOOSE k \in 1..Len(h) :
    /\ IsTarget(h[k]) /\ h[k].name = t_name
    /\ \A j \in 1..(k - 1) : ~(IsTarget(h[j]) /\ h[j].name = t_name)

\* The target name whose first record is the latest.
MostRecentlyIntroduced(h) ==
  LET names == {h[k].name : k \in {j \in 1..Len(h) : IsTarget(h[j])}}
  IN CHOOSE t \in names :
       \A u \in names : FirstTarget(h, u) <= FirstTarget(h, t)

\* C15 (latest target): with Target records in the history, the summary on
\* screen is about the target name introduced last, the one whose first
\* record is the latest, whatever the name of the last Target record: each
\* group's values are exactly the ratios shown in that name's column of the
\* group's rows that are not struck out, and no ratio of another name's
\* column is among them.
C15_LatestTarget ==
  LET h == analysis_history
      names == unique_target_names(h)
  IN names # <<>> =>
       LET latest == MostRecentlyIntroduced(h)
           c == CHOOSE x \in DOMAIN names : names[x] = latest
           counted(n) == {r \in DOMAIN results_tree[n].rows :
                            /\ results_tree[n].rows[r].targets[c].ratio.shown
                            /\ ~results_tree[n].rows[r].excluded}
       IN /\ summary_text.kind = "Latest Results" => summary_text.name = latest
          /\ \A n \in DOMAIN results_tree :
               LET g == results_tree[n].group
                   vals == IF g \in DOMAIN summary_text.data
                           THEN summary_text.data[g] ELSE <<>>
               IN /\ Len(vals) = Cardinality(counted(n))
                  /\ \A d \in DOMAIN vals :
                       /\ vals[d].lane + 1 \in counted(n)
                       /\ LET cell == results_tree[n].rows[vals[d].lane + 1]
                                        .targets[c].ratio
                          IN vals[d].num = cell.num /\ vals[d].den = cell.den
                       /\ \A e \in DOMAIN vals :
                            d # e => vals[d].lane # vals[e].lane
          /\ \A g \in DOMAIN summary_text.data :
               \E n \in DOMAIN results_tree : results_tree[n].group = g

\* A Target record of an earlier name was measured again after a second name
\* had been introduced: the summary shows values, under the second name.
C15_Witness ==
  /\ lastOp = "measure"
  /\ IsTarget(Last(analysis_history))
  /\ summary_text.kind = "Latest Results"
  /\ summary_text.name # Last(analysis_history).name
  /\ DOMAIN summary_text.data # {}

\* The number of lanes of group g with a defined ratio of t_name that are
\* not excluded.
Contributing(h, ex, g, t_name) == Len(counted_lanes(h, ex, g, t_name))

\* C16 (significance gating): a Welch p-value is written, in the summary on
\* screen at a refresh and in the workbook and the clipboard text, only
\* while the Welch check box is checked and both Control and Treatment have
\* at least two defined ratios of the target name that are not excluded.
C16_SignificanceGating ==
  LET h == analysis_history
      ex == excluded_samples
      enough(t_name) == /\ ttest_check
                        /\ Contributing(h, ex, "Control", t_name) >= 2
                        /\ Contributing(h, ex, "Treatment", t_name) >= 2
  IN /\ (lastOp \in {"measure", "undo_last", "toggle_exclusion"}
           /\ summary_text.pvalue) => enough(summary_text.name)
     /\ lastOp \in {"export_data", "copy_to_clipboard"} =>
          \A t_name \in DOMAIN export_summary(h, ex) :
            export_summary(h, ex)[t_name].pvalue => enough(t_name)

\* C17 (percent-change gating): a percent change is written, in the summary
\* on screen at a refresh and in the workbook and the clipboard text, only
\* while both Control and Treatment have at least one defined ratio of the
\* target name that is not excluded and the Control values it is computed
\* from are neither none nor all 0.
C17_ChangeGating ==
  LET h == analysis_history
      ex == excluded_samples
      both(t_name) == /\ Contributing(h, ex, "Control", t_name) >= 1
                      /\ Contributing(h, ex, "Treatment", t_name) >= 1
  IN /\ (lastOp \in {"measure", "undo_last", "toggle_exclusion"}
           /\ summary_text.change) =>
          /\ both(summary_text.name)
          /\ MeanNonZero(summary_text.data["Control"])
          /\ summary_text.data["Treatment"] # <<>>
     /\ lastOp \in {"export_data", "copy_to_clipboard"} =>
          \A t_name \in DOMAIN export_summary(h, ex) :
            export_summary(h, ex)[t_name].change =>
              /\ both(t_name)
              /\ MeanNonZero(export_summary(h, ex)[t_name].data["Control"])
              /\ export_summary(h, ex)[t_name].data["Treatment"] # <<>>

\* C19 (start-lane padding): a measure without Equal N and with start lane s
\* appends one record whose intensities are s - 1 zeros followed by the lane
\* intensities from left to right.  The padded positions are rows like any
\* other: the table has a row for each, which can be excluded; a Target's
\* padded row shows no raw value and no ratio, and the row of measured lane j
\* holds the ratio against position s - 1 + j of the matched Loading Control.
C19_StartLanePadding ==
  [][\A sel \in PadSelections :
       (~sel.equal_n /\ apply_selection(sel) /\ lastOp' = "measure") =>
         LET lanes == process_roi(image, rotation_angle, display_width,
                                  display_height, sel).lanes
             s == sel.start_idx
             h == analysis_history'
             e == Last(h)
             n == CHOOSE x \in DOMAIN results_tree' :
                    results_tree'[x].group = e.group
             rows == results_tree'[n].rows
             names == unique_target_names(h)
         IN /\ Len(h) = Len(analysis_history) + 1
            /\ Len(e.intensities) = s - 1 + Len(lanes)
            /\ \A p \in 1..(s - 1) : e.intensities[p] = 0
            /\ \A j \in DOMAIN lanes : e.intensities[s - 1 + j] = lanes[j]
            /\ Len(rows) >= Len(e.intensities)
            /\ \A p \in DOMAIN e.intensities :
                 rows[p].excluded <=> Member(excluded_samples, e.group, p - 1)
            /\ IsTarget(e) =>
                 LET c == CHOOSE x \in DOMAIN names : names[x] = e.name
                     lc == t_lc_entry(h, e)
                     C == IF lc = 0 THEN <<>> ELSE h[lc].intensities
                 IN /\ \A p \in 1..(s - 1) :
                         /\ rows[p].targets[c].raw = Dash
                         /\ rows[p].targets[c].ratio = NoRatio
                    /\ \A j \in DOMAIN lanes :
                         rows[s - 1 + j].targets[c].ratio =
                           RatioCell(lanes[j], ValueAt(C, s - 1 + j - 1))]_vars

\* A Target measured from start lane 2 behind a Loading Control: its first
\* row is a padded one and is excluded, and a later row shows a ratio.
C19_Witness ==
  LET h == analysis_history
      names == unique_target_names(h)
  IN /\ lastOp = "measure"
     /\ IsTarget(Last(h))
     /\ Len(Last(h).intensities) = 3
     /\ Last(h).intensities[1] = 0
     /\ results_tree[1].rows[1].excluded
     /\ \E r \in 2..3 :
          results_tree[1].rows[r].targets[Len(names)].ratio.shown

\* The x-positions of a list of separators.
PositionsOf(seps) == [k \in DOMAIN seps |-> seps[k].x]

\* A Region event with separators present that is not part of the drawing
\* drag: on_roi_selected called by a release, or by a move that resizes the
\* rectangle, the widgets holding replicate_count and equal_samples.
RegionEdit(replicate_count, equal_samples) ==
  /\ ButtonDown
  /\ separators # <<>>
  /\ graphics_view.current_rect_item # NoRect
  /\ \/ mouseReleaseEvent(FALSE, replicate_count, equal_samples)
     \/ /\ graphics_view.is_resizing
        /\ ~graphics_view.is_dragging_sep
        /\ \E pos \in MovePoints :
             /\ ~found_sep(graphics_view, pos)
             /\ mouseMoveEvent(pos, FALSE, replicate_count, equal_samples)

\* The separators after a Region event follow the rule: evenly spaced over
\* the new Region when the count was not the expected one or the width is
\* more than 5% away from that of the previous Region, else at the same x
\* with the vertical extent of the new Region.
PersistenceRule(replicate_count, equal_samples) ==
  IF \/ Len(separators) # expected_num(replicate_count, equal_samples)
     \/ 20 * Abs(current_roi_rect'[3] - last_roi_rect[3]) > current_roi_rect'[3]
  THEN separators' = update_separators(current_roi_rect', replicate_count,
                                      equal_samples)
  ELSE /\ PositionsOf(separators') = PositionsOf(separators)
       /\ \A k \in DOMAIN separators' :
            /\ separators'[k].top = Top(current_roi_rect')
            /\ separators'[k].bottom = Bottom(current_roi_rect')

\* The release that ends the drag of a separator.
SeparatorReleased ==
  /\ graphics_view.is_dragging_sep
  /\ graphics_view.current_rect_item # NoRect
  /\ lastOp' = "mouseReleaseEvent"

\* C20: on a Region event outside the drawing drag, with separators present,
\* the separators are regenerated evenly spaced exactly when their count is
\* not the expected one or the Region width moved by more than 5%, and keep
\* their x-positions otherwise; and the release of a dragged separator
\* leaves every separator where it is.
C20_SeparatorPersistence ==
  [][(\A replicate_count \in CanvasReps, equal_samples \in BOOLEAN :
        RegionEdit(replicate_count, equal_samples)
          => PersistenceRule(replicate_count, equal_samples))
     /\ (SeparatorReleased
          => PositionsOf(separators') = PositionsOf(separators))]_vars

\* The number of lanes a selection asks for: one more than its separators,
\* or the sections of the widgets when it has none.
lanes_requested(sel) ==
  IF sel.seps # <<>> THEN Len(sel.seps) + 1
  ELSE IF sel.equal_n THEN sel.reps * 2 ELSE sel.reps

WellFormedBoundaries(res, sel, width) ==
  /\ Len(res.boundaries) = lanes_requested(sel) + 1
  /\ \A i \in 1..(Len(res.boundaries) - 1) :
       res.boundaries[i] <= res.boundaries[i + 1]
  /\ res.boundaries[1] = 0
  /\ res.boundaries[Len(res.boundaries)] = width

\* The measure of what the canvas holds, the widgets holding
\* replicate_count and equal_samples, uses well-formed boundaries.
MeasuresWellFormed(sel) ==
  WellFormedBoundaries(
    process_roi(image, rotation_angle, display_width, display_height, sel),
    sel,
    Width(extract_roi_data(image, rotation_angle, display_width,
                           display_height, sel.roi, sel.seps).gray))

\* C18: for every measure, with evenly spaced lanes and with separators, the
\* boundaries used for the extraction are one more than the lanes, never
\* decrease, start at 0 and end at the width of the cropped region.
C18_LaneBoundaries ==
  [][\A replicate_count \in CanvasReps, equal_samples \in BOOLEAN :
       (/\ ~ButtonDown
        /\ quantify_selection("Actin", TRUE, replicate_count, equal_samples)
        /\ lastOp' = "measure")
         => MeasuresWellFormed(canvas_selection("Actin", TRUE, replicate_count,
                                                equal_samples))]_vars

\* C21: measure, undo and toggle make their whole change of the history or
\* of the registry before refresh_analysis runs, refresh_analysis runs once
\* before the handler returns and nothing is changed after it; while an
\* Equal N measure is under way refresh_analysis never sees the history
\* end with the new Control record.
C21_AtomicRecompute ==
  [][/\ lastOp' = "refresh_analysis"
          => /\ frame.pending = <<>>
             /\ frame.refreshes = 0
             /\ frame.op = "process_roi" => Last(origin) # "eqC"
     /\ frame.refreshes > 0
          => UNCHANGED <<analysis_history, excluded_samples>>
     /\ (frame # Idle /\ frame' = Idle) => frame.refreshes = 1]_vars

\* An Equal N measure has appended both records and refresh_analysis has
\* run once.
C21_Witness ==
  /\ frame.op = "process_roi"
  /\ frame.refreshes = 1
  /\ Len(origin) >= 2
  /\ Last(origin) = "eqT"
  /\ lastOp = "refresh_analysis"

\* The inverted pixels of an image, row by row.
LanePixels(img) ==
  [k \in 1..(Height(img) * Width(img)) |->
     255 - img[((k - 1) \div Width(img)) + 1][((k - 1) % Width(img)) + 1]]

\* The k-th smallest pixel: at least k pixels are not above it and at least
\* n - k + 1 are not below it.
OrderStatistic(px, k) ==
  CHOOSE v \in Range(px) :
    /\ Cardinality({i \in DOMAIN px : px[i] <= v}) >= k
    /\ Cardinality({i \in DOMAIN px : px[i] >= v}) >= Len(px) - k + 1

\* Twice the median: the middle pixel in order, or the two middle ones.
SortedMedian2(px) ==
  IF Len(px) % 2 = 1 THEN 2 * OrderStatistic(px, (Len(px) + 1) \div 2)
  ELSE OrderStatistic(px, Len(px) \div 2)
         + OrderStatistic(px, (Len(px) \div 2) + 1)

\* n^2 times the variance, from the deviations from the mean:
\* sum (n p - sum p)^2 / n.
DeviationN2(px) ==
  SumSeq([i \in DOMAIN px |->
            (Len(px) * px[i] - SumSeq(px)) * (Len(px) * px[i] - SumSeq(px))])
    \div Len(px)

\* p > background + 0.2 * stddev
Passes(p, m2, n, devN2) ==
  /\ 2 * p > m2
  /\ 5 * (2 * p - m2) * n > ISqrt(4 * devN2)

\* Twice the sum of (p - background) over the pixels that pass.
SignalOf(px, m2, devN2) ==
  SumSeq([k \in DOMAIN px |->
            IF Passes(px[k], m2, Len(px), devN2) THEN 2 * px[k] - m2 ELSE 0])

ClaimedSignal(px) == SignalOf(px, SortedMedian2(px), DeviationN2(px))

\* C22: the intensity of a lane is the sum of (p - median) over the pixels p
\* above median + 0.2 * stddev; it is 0 when no pixel passes, as in a lane
\* of equal pixels, and never negative; 100 pixels of 100 and 10 pixels of
\* 200 give 1000 (intensities are held doubled).
C22_SignalExtraction ==
  lastOp = "measure" =>
    /\ Last(analysis_history).intensities = <<ClaimedSignal(LanePixels(image))>>
    /\ Last(analysis_history).intensities[1] >= 0
    /\ Cardinality(Range(LanePixels(image))) = 1
         => Last(analysis_history).intensities[1] = 0
    /\ image = BandImage => Last(analysis_history).intensities[1] = 2 * 1000

\* The band image has been measured.
C22_Witness ==
  /\ lastOp = "measure"
  /\ image = BandImage
  /\ Last(analysis_history).intensities = <<2000>>

\* The columns a lane integrates.
ColumnsOf(span) == {c \in span[1]..(span[2] - 1) : TRUE}

\* One intensity per pair of boundaries, 0 for a pair whose clamped end is
\* not beyond its clamped start, and the columns integrated lie in order
\* and take each column of the region once.
Partitioned(res, width) ==
  /\ Len(res.lanes) = Len(res.boundaries) - 1
  /\ \A i \in DOMAIN res.lanes :
       lane_span(width, res.boundaries[i], res.boundaries[i + 1])[2]
         <= lane_span(width, res.boundaries[i], res.boundaries[i + 1])[1]
       => res.lanes[i] = 0
  /\ \A c \in 0..(width - 1) :
       Cardinality({i \in DOMAIN res.lanes :
                      c \in ColumnsOf(lane_span(width, res.boundaries[i],
                                                res.boundaries[i + 1]))}) = 1
  /\ \A i \in DOMAIN res.lanes : \A j \in DOMAIN res.lanes :
       i < j =>
         \A c \in ColumnsOf(lane_span(width, res.boundaries[i],
                                       res.boundaries[i + 1])) :
           \A d \in ColumnsOf(lane_span(width, res.boundaries[j],
                                         res.boundaries[j + 1])) : c < d

\* C23: for the boundaries of every measure, separators outside the region
\* or on top of each other included, there is one intensity per pair of
\* boundaries, an empty pair gives 0.0, and the columns integrated are
\* disjoint, in order from the left and take every column once.
C23_LanePartition ==
  [][\A sel \in PartSelections :
       (apply_selection(sel) /\ lastOp' = "measure")
         => Partitioned(process_roi(image, rotation_angle, display_width,
                                    display_height, sel),
                        Width(extract_roi_data(image, rotation_angle,
                                               display_width, display_height,
                                               sel.roi, sel.seps).gray))]_vars

\* Measured with one separator left of the region and one right of it: the
\* outer lanes are empty and the middle lane is the region.
C23_Witness ==
  /\ lastOp = "measure"
  /\ Last(analysis_history).intensities = <<0, 8, 0>>

\* C24: at every measure the lanes quantified are as many as the Replicates
\* box says at that moment, twice as many with Equal N, so that a record
\* measured without Equal N holds Replicates + (start lane - 1) intensities
\* (the start lane is 1 here), whatever was drawn, dragged and set before.
C24_LaneCount ==
  [][\A replicate_count \in CanvasReps, equal_samples \in BOOLEAN :
       (/\ ~ButtonDown
        /\ quantify_selection("Actin", TRUE, replicate_count, equal_samples)
        /\ lastOp' = "measure")
         => /\ Len(process_roi(image, rotation_angle, display_width,
                               display_height,
                               canvas_selection("Actin", TRUE, replicate_count,
                                                equal_samples)).lanes)
                 = (IF equal_samples THEN 2 * replicate_count
                    ELSE replicate_count)
            /\ ~equal_samples
                 => Len(Last(analysis_history').intensities)
                      = replicate_count]_vars

\* The x of each line of seps
XsOf(seps) == {seps[k].x : k \in DOMAIN seps}

\* C25: whenever QUANTIFY SELECTION takes a measurement, every separator x
\* handed to the extractor lies within [left, right] of the region being
\* measured and is the x of a separator shown on the canvas, whatever draw,
\* resize, separator-drag, click and Lock ROI Size interactions came before.
C25_SeparatorsInside ==
  [][(/\ ~ButtonDown
      /\ quantify_selection("Actin", TRUE, 2, FALSE)
      /\ lastOp' = "measure")
     => (/\ \A x \in XsOf(separators) :
             /\ Left(canvas_selection("Actin", TRUE, 2, FALSE).roi) <= x
             /\ x <= Right(canvas_selection("Actin", TRUE, 2, FALSE).roi)
         /\ XsOf(separators) \subseteq XsOf(graphics_view.separators))]_vars

\* C26: in every row of the detailed table where a ratio is shown for a
\* target, the ratio is the row's raw Target value divided by the value shown
\* in the row's Loading Control column.
C26_RowConsistency ==
  \A g \in DOMAIN results_tree :
    \A r \in DOMAIN results_tree[g].rows :
      \A n \in DOMAIN results_tree[g].rows[r].targets :
        LET row == results_tree[g].rows[r]
            cell == row.targets[n]
        IN cell.ratio.shown =>
             /\ cell.raw.shown
             /\ row.lc.shown
             /\ row.lc.val > 0
             /\ cell.ratio.num * row.lc.val = cell.ratio.den * cell.raw.val

\* Neither the canvas nor the window holds a region or a separator.
RegionCleared ==
  /\ graphics_view.current_rect_item = NoRect
  /\ graphics_view.separators = <<>>
  /\ current_roi_rect = NoRect
  /\ separators = <<>>

\* C27: after apply_selection has run with a protein name, whether it
\* appended a record or found the region empty, the region and all
\* separators are cleared; and apply_selection on a cleared region, with no
\* region drawn since, appends nothing.
C27_RegionConsumedOnce ==
  [][/\ (\E name \in ConsumeNames :
           /\ name # ""
           /\ quantify_selection(name, TRUE, 2, FALSE)
           /\ lastOp' \in {"measure", "measure_empty"})
        => RegionCleared'
     /\ (/\ RegionCleared
         /\ \E name \in ConsumeNames :
              quantify_selection(name, TRUE, 2, FALSE))
        => /\ analysis_history' = analysis_history
           /\ lastOp' = "apply_noregion"]_vars

\* A second QUANTIFY SELECTION right after a measurement found no region.
C27_Witness ==
  /\ lastOp = "apply_noregion"
  /\ Len(analysis_history) = 1
  /\ RegionCleared

\* The history h without the Target records of name n and group g that lie
\* before the last of them.
Unshadowed(h, g, n) ==
  LET keep == SelectSeq([j \in 1..Len(h) |-> j],
                        LAMBDA j : ~(/\ IsTarget(h[j])
                                     /\ h[j].name = n
                                     /\ h[j].group = g
                                     /\ j < t_entry(h, g, n)))
  IN [m \in DOMAIN keep |-> h[keep[m]]]

\* The values the workbook and the clipboard report for name n and group g
ExportedFor(h, ex, g, n) ==
  IF n \in DOMAIN normalized_results(h, ex)
  THEN IF g \in DOMAIN normalized_results(h, ex)[n]
       THEN normalized_results(h, ex)[n][g] ELSE <<>>
  ELSE <<>>

\* C28: when the history holds several Target records of one name and one
\* group, the raw values and ratios of the table and the values exported for
\* that name and group come only from the most recently appended of them:
\* they are what they would be without the earlier ones, in every state
\* measure and undo can reach.
C28_Shadowing ==
  \A gi \in DOMAIN results_tree :
    \A ni \in DOMAIN unique_target_names(analysis_history) :
      LET g == results_tree[gi].group
          n == unique_target_names(analysis_history)[ni]
      IN t_entry(analysis_history, g, n) # 0 =>
           /\ \A r \in DOMAIN results_tree[gi].rows :
                /\ results_tree[gi].rows[r].targets[ni].raw =
                     TargetCells(Unshadowed(analysis_history, g, n),
                                 g, n, r - 1).raw
                /\ results_tree[gi].rows[r].targets[ni].ratio =
                     TargetCells(Unshadowed(analysis_history, g, n),
                                 g, n, r - 1).ratio
           /\ ExportedFor(analysis_history, excluded_samples, g, n) =
                ExportedFor(Unshadowed(analysis_history, g, n),
                            excluded_samples, g, n)

\* C29: when the button is released after an edge of the drawn region was
\* moved, and the separators are as many as the widgets expect, either the
\* final width differs by at most 5% from the width the region had when the
\* edge was taken, or the separators are evenly spaced within the final
\* region.
C29_ResizeGesture ==
  [][(/\ graphics_view.is_resizing
      /\ ButtonDown
      /\ mouseReleaseEvent(FALSE, 2, FALSE)
      /\ Len(separators') = expected_num(2, FALSE))
     => (\/ 20 * Abs(current_roi_rect'[3] - DrawnRegion[3])
              <= Max(current_roi_rect'[3], DrawnRegion[3])
         \/ separators' = update_separators(current_roi_rect', 2, FALSE))]_vars

\* The intensity sequences a measure of sel yields in a window that has just
\* loaded img and set the angle: no record, no exclusion.
FreshIntensities(img, angle, sel) ==
  LET records == process_roi(img, angle, DisplaySize(img, angle)[1],
                             DisplaySize(img, angle)[2], sel).records
  IN [k \in DOMAIN records |-> records[k].intensities]

\* The intensity sequences of the records after the first n of h
AppendedIntensities(h, n) ==
  [k \in 1..(Len(h) - n) |-> h[n + k].intensities]

\* C30: a measure appends intensity sequences that depend on the image, the
\* rotation angle, the region, the separators and the replicate, Equal N and
\* start-lane settings only: whatever the history and the registry hold,
\* they are the ones the same selection yields in a fresh window, so two
\* measures with the same inputs give the same sequences.
C30_Determinism ==
  [][\A sel \in SessionSelections :
       (apply_selection(sel) /\ lastOp' = "measure")
         => /\ SubSeq(analysis_history', 1, Len(analysis_history)) =
                 analysis_history
            /\ AppendedIntensities(analysis_history', Len(analysis_history)) =
                 FreshIntensities(image, rotation_angle, sel)]_vars

\* The same selection measured twice, the second time over a history with a
\* record and a registry that excludes the first lane: equal records.
C30_Witness ==
  /\ lastOp = "measure"
  /\ Len(analysis_history) = 2
  /\ analysis_history[1] = analysis_history[2]
  /\ is_excluded(excluded_samples, analysis_history[2].group, 0)
  /\ analysis_history[2].intensities[1] > 0

=============================================================================
